---- MODULE Spec2Model ----
(***************************************************************************)
(* A model of the query orchestrator (QueryImpl, src/src/query-generator.ts)*)
(* and of the transport session it drives (SandboxTransport,               *)
(* src/src/transport/sandbox-transport.ts).                                *)
(*                                                                         *)
(* The orchestrator is an async generator: it runs only while the consumer *)
(* has requested an element, and it suspends at every await.  Each action  *)
(* below is the code between two suspension points.  The remote execution  *)
(* context (Sandbox), the driven CLI process and the user's hooks are the  *)
(* environment: their outcomes are chosen nondeterministically.            *)
(***************************************************************************)
EXTENDS Integers, Sequences, FiniteSets, TLC

Null == "null"

\* An optional value that is not a string: None, or Some(x).
None == <<>>
Some(x) == <<x>>
The(o) == o[1]

\* ---------------------------------------------------------------- bounds
\* Explicit values of options.maxTurns range over 0..MaxTurnsArg.
MaxTurnsArg == 2
\* The driven process chooses its output freely for this many turns of a
\* run; in later turns it repeats RepeatScript.
MaxVariedTurns == 1
\* Execution contexts one transport may provision (SpecTransport).
MaxSandboxes == 2
\* startSession calls made directly on one transport (SpecTransport).
MaxCalls == 2
\* Entries of setup.commands (SpecSetup).
MaxCommands == 2
\* Lines the driven process prints on stdout (SpecSession).
MaxLines == 2
\* Pieces of output one log event can carry (SpecSession).
MaxChunk == 2
\* Lines of the stream given to parseNDJSONStream (SpecParser).
MaxInputLines == 3
\* Characters one reader.read() can return (SpecParser).
MaxRead == 3
\* Lines the process prints on stdout (SpecLines).
MaxStdoutLines == 3
\* Segments of the assistant text of one turn (SpecTools).
MaxSegments == 2
\* Messages in the log when the run reaches its teardown (SpecSnapshot).
MaxLog == 2
\* Query.createSnapshot calls made by the caller (SpecSnapshot).
MaxManual == 2
\* chat and chatStream calls made on the client (SpecClient).
MaxChats == 2

\* ------------------------------------------------------ program constants
\* const maxTurns = this.options.maxTurns ?? 10
DefaultMaxTurns == 10
\* this.messages.slice(-10)
WindowSize == 10

\* ------------------------------------------------------------- messages
ToolNames == {"calc"}

SessionStarted == [type |-> "system", subtype |-> "session_started", text |-> <<>>]
SessionEnded == [type |-> "system", subtype |-> "session_ended", text |-> <<>>]
\* An assistant message; its text is abstracted to the list of tool names
\* it requests (in order of appearance).
Assistant(reqs) == [type |-> "assistant", subtype |-> "", text |-> reqs]
ResultMsg == [type |-> "result", subtype |-> "success", text |-> <<>>]

\* What the driven process can print on stdout during one turn.
Scripts ==
  { <<Assistant(<<"calc">>)>>,
    <<Assistant(<<>>)>>,
    <<Assistant(<<>>), ResultMsg>>,
    <<>> }
RepeatScript == <<Assistant(<<"calc">>)>>
ScriptsAt(t) == IF t <= MaxVariedTurns THEN Scripts ELSE {RepeatScript}

SnapshotModes == {"never", "on-success", "always", "on-demand"}

VARIABLES
  args,        \* the immutable arguments of query(): options, hooks, snapshot policy
  transport,   \* SandboxTransport's fields: sandbox, isConnected, currentSessionId
  sandboxes,   \* the execution contexts provisioned so far (environment)
  pc,          \* where the run() generator is suspended
  q,           \* QueryImpl's fields and run()'s locals
  aborted,     \* the abort signals that have fired
  proc,        \* the driven CLI process of the current turn (environment)
  calls,       \* startSession calls made directly on the transport (SpecTransport)
  obs          \* what an outside observer has seen (history, never read by the code)

vars == <<args, transport, sandboxes, pc, q, aborted, proc, calls, obs>>

\* ------------------------------------------------------------ transport
NewTransport == [sandbox |-> None, isConnected |-> FALSE, currentSessionId |-> None]

NewSandbox == [stops |-> 0, snaps |-> 0]

\* How often context id has been released: stopped, or ended by a snapshot.
Released(id) == sandboxes[id].stops + sandboxes[id].snaps

HasAuthUnchecked(a) == TRUE

\* getAuthCredentials + the check in connect(): an API key or an OAuth token
\* (each taken from the options or, failing that, from the environment).
HasAuth(a) == a.apiKey \/ a.oauthToken

\* Sandbox.create succeeded: this.sandbox = <the new context>.
TransportCreated(t, id) == [t EXCEPT !.sandbox = Some(id)]

\* The end of connect()'s try block: this.isConnected = true.
TransportConnected(t) == [t EXCEPT !.isConnected = TRUE]

TransportClosedKeepsHandle(t) ==
  [t EXCEPT !.isConnected = FALSE, !.currentSessionId = None]

TransportClosedStaysConnected(t) ==
  [t EXCEPT !.sandbox = None, !.currentSessionId = None]

\* close(): the fields after it returns.
TransportClosed(t) ==
  [t EXCEPT !.sandbox = None, !.isConnected = FALSE, !.currentSessionId = None]

\* close(): the contexts after it returns (sandbox.stop() is called iff a handle is held).
SandboxesAfterClose(t, sbs) ==
  IF t.sandbox # None
    THEN [sbs EXCEPT ![The(t.sandbox)].stops = @ + 1]
    ELSE sbs

\* createSnapshotWithInfo(): the guard, and the fields after a successful snapshot.
CanSnapshot(t) == t.sandbox # None

TransportSnapshottedKeepsHandle(t) == [t EXCEPT !.isConnected = FALSE]

TransportSnapshotted(t) == [t EXCEPT !.isConnected = FALSE, !.sandbox = None]

SandboxesAfterSnapshot(t, sbs) == [sbs EXCEPT ![The(t.sandbox)].snaps = @ + 1]

\* wrapError(): an SDK error is returned unchanged, anything else becomes UNKNOWN_ERROR.
SDKErrors ==
  {"AuthenticationError", "CLIInstallError", "CLIExecutionError", "AbortError",
   "SandboxError", "UNKNOWN_ERROR"}
wrapErrorAlwaysUnknown(e) == "UNKNOWN_ERROR"

wrapError(e) == IF e \in SDKErrors THEN e ELSE "UNKNOWN_ERROR"

\* The cause of the SDKError wrapError creates for a failure that is not an
\* SDK error: the failure itself.
wrapErrorCause(e) == IF e \in SDKErrors THEN None ELSE Some(e)

\* ------------------------------------------------------ the query's signal
\* constructor: abortController = options.abortController ?? new AbortController();
\* options.signal = options.signal ?? abortController.signal.
\* startSession: signal = options.signal ?? options.abortController?.signal.
\* "ctl" is abortController.signal, "ext" a signal the caller passed as options.signal.
EffectiveSignal(a) == IF a.signal = "signal" THEN "ext" ELSE "ctl"

\* maxTurns as run() reads it.
MaxTurns(a) == IF a.maxTurns = None THEN DefaultMaxTurns ELSE The(a.maxTurns)

NoProc == [state |-> "none", out |-> <<>>, sigterm |-> 0, listener |-> Null]

NoOutcome == [kind |-> "none", error |-> Null]

InitQ ==
  [isStarted |-> FALSE, isInterrupted |-> FALSE, messages |-> <<>>,
   querySuccess |-> FALSE, queryError |-> Null, turn |-> 0,
   conversationHistory |-> <<>>, toolRequests |-> <<>>, assistantText |-> <<>>,
   snapshotId |-> None, setupDone |-> 0, setupError |-> Null,
   currentPrompt |-> "prompt"]

InitObs ==
  [yielded |-> <<>>, outcome |-> NoOutcome, determined |-> NoOutcome,
   tdTrace |-> <<>>, tdFailed |-> FALSE, sessionsStarted |-> 0, turnStart |-> 0,
   provisioned |-> None, interruptedInFlight |-> FALSE, sessAborted |-> FALSE,
   sessFailure |-> None, tdConnected |-> FALSE, startedWhileInterrupted |-> FALSE,
   everEnded |-> FALSE,
   lastCall |-> "none", lastError |-> Null, lastCallConnected |-> FALSE,
   sinceSnapshot |-> FALSE, stopRejected |-> FALSE,
   setupTrace |-> <<>>, setupErrorCalls |-> 0, setupThrown |-> Null,
   snapAttempted |-> FALSE, fromTransport |-> <<>>,
   toolTurnTexts |-> <<>>, outbound |-> <<>>, streamSessions |-> <<>>]

ArgsSet ==
  [apiKey : BOOLEAN, oauthToken : BOOLEAN, snapshotId : BOOLEAN,
   maxTurns : {None} \cup {Some(n) : n \in 0..MaxTurnsArg},
   tools : {{}, ToolNames},
   onTeardown : BOOLEAN,
   snapshot : SnapshotModes \cup {Null},
   snapshotEnabled : BOOLEAN,
   signal : {"none", "signal", "abortController"}]

InitEagerConnect ==
  /\ args \in {a \in ArgsSet : ~a.oauthToken}
  /\ transport = TransportConnected(TransportCreated(NewTransport, 1))
  /\ sandboxes = <<NewSandbox>>
  /\ pc = "notStarted"
  /\ q = InitQ
  /\ aborted = {}
  /\ proc = NoProc
  /\ calls = <<>>
  /\ obs = InitObs

\* The state after query(args): new QueryImpl(...), nothing has run yet.
Init ==
  /\ args \in {a \in ArgsSet : ~a.oauthToken}
  /\ transport = NewTransport
  /\ sandboxes = <<>>
  /\ pc = "notStarted"
  /\ q = InitQ
  /\ aborted = {}
  /\ proc = NoProc
  /\ calls = <<>>
  /\ obs = InitObs

\* ------------------------------------------------- run(): pure pieces
LoopContinuesOffByOne(turn, maxTurns, interrupted) == turn <= maxTurns /\ ~interrupted

\* while (turn < maxTurns && !this.isInterrupted)
LoopContinues(turn, maxTurns, interrupted) == turn < maxTurns /\ ~interrupted

\* this.messages.slice(-10)
LastMessages(msgs) ==
  IF Len(msgs) <= WindowSize THEN msgs
  ELSE SubSeq(msgs, Len(msgs) - WindowSize + 1, Len(msgs))

RECURSIVE JoinAssistantText(_)
\* turnMessages.filter(isAssistantMessage).map(extractText).join('')
JoinAssistantText(msgs) ==
  IF msgs = <<>> THEN <<>>
  ELSE IF Head(msgs).type = "assistant"
         THEN Head(msgs).text \o JoinAssistantText(Tail(msgs))
         ELSE JoinAssistantText(Tail(msgs))

\* The text run() scans for tool requests after a turn.
ExtractAssistantText(msgs) == JoinAssistantText(LastMessages(msgs))

TurnIsFinalIgnoringTools(toolRequests, tools) == toolRequests = <<>>

\* if (toolRequests.length === 0 || tools.length === 0) break;
TurnIsFinal(toolRequests, tools) == toolRequests = <<>> \/ tools = {}

\* The tool loop: one text result per request, in request order.
ToolResults(reqs, tools) ==
  [i \in 1..Len(reqs) |->
     [tool |-> reqs[i], kind |-> IF reqs[i] \in tools THEN "result" ELSE "unknown"]]

\* conversationHistory after a tool-executing turn.
HistoryAfterTools(history, assistantText, results) ==
  (IF assistantText # <<>>
     THEN Append(history, [role |-> "assistant", content |-> assistantText])
     ELSE history)
  \o << [role |-> "user", content |-> results] >>

RunCatchSwallows(e) == [kind |-> "completed", error |-> Null]

\* run()'s catch block: queryError = error; throw wrapError(error, 'Query failed').
RunCatch(e) == [kind |-> "threw", error |-> wrapError(e)]

\* startSession's catch block.
StartSessionCatch(e, signalAborted) ==
  IF signalAborted THEN "AbortError"
  ELSE IF e \in {"CLIExecutionError", "SandboxError"} THEN e
  ELSE wrapError(e)

TeardownRethrows(determined, teardownError) == [kind |-> "threw", error |-> teardownError]

\* handleTeardownAndLifecycle's catch block: the teardown error is logged and
\* the outcome run() had already determined stands.
TeardownCatch(determined, teardownError) == determined

\* handleSnapshot: is an automatic snapshot attempted?
ShouldSnapshot(a, success) ==
  IF a.snapshot # Null
    THEN a.snapshot = "always" \/ (a.snapshot = "on-success" /\ success)
    ELSE a.snapshotEnabled /\ success

\* ----------------------------------------------------- helpers of actions
\* The run fails with error e: run()'s catch, then its finally block.
Fail(e, qq, oo) ==
  /\ q' = [qq EXCEPT !.queryError = e]
  /\ obs' = [oo EXCEPT !.determined = RunCatch(e)]
  /\ pc' = "tdHook"

\* The turn loop is left: querySuccess = true; yield endMessage.
EndLoop(qq, oo) ==
  /\ q' = [qq EXCEPT !.querySuccess = TRUE]
  /\ obs' = [oo EXCEPT !.yielded = Append(@, SessionEnded)]
  /\ pc' = "yieldEnd"

\* An abort event on signal s reaches the listener startSession registered
\* for the current process: command.kill('SIGTERM').
ProcAfterAbort(p, s) ==
  IF p.state = "running" /\ p.listener = s
    THEN [p EXCEPT !.sigterm = @ + 1]
    ELSE p

InSession == pc \in {"starting", "streaming", "yieldMsg"}

\* The run has reached its finally block (or is over).
InTeardown == pc \in {"tdHook", "tdSnapshot", "tdClose", "done"}

\* ------------------------------------------------------ consumer actions
\* next() on a query that has not started: the generator starts and reaches
\* await this.transport.connect(...).
NextStart ==
  /\ pc = "notStarted"
  /\ q' = [q EXCEPT !.isStarted = TRUE]
  /\ pc' = "connect"
  /\ UNCHANGED <<args, calls, transport, sandboxes, aborted, proc, obs>>

\* return() before the first next(): there is no generator yet.
ReturnBeforeStart ==
  /\ pc = "notStarted"
  /\ q' = [q EXCEPT !.isInterrupted = TRUE]
  /\ obs' = [obs EXCEPT !.outcome = [kind |-> "returned", error |-> Null]]
  /\ pc' = "done"
  /\ UNCHANGED <<args, calls, transport, sandboxes, aborted, proc>>

\* return() while the generator is suspended at a yield: its finally block runs.
Return ==
  /\ pc \in {"yieldInit", "yieldMsg", "yieldEnd"}
  /\ q' = [q EXCEPT !.isInterrupted = TRUE]
  /\ obs' = [obs EXCEPT !.determined = [kind |-> "returned", error |-> Null]]
  /\ pc' = "tdHook"
  /\ UNCHANGED <<args, calls, transport, sandboxes, aborted, proc>>

\* interrupt(): this.isInterrupted = true; this.abortController.abort().
\* Called before the first element is requested, during a turn or between turns.
Interrupt ==
  /\ ~InTeardown
  /\ ~q.isInterrupted \/ "ctl" \notin aborted
  /\ q' = [q EXCEPT !.isInterrupted = TRUE]
  /\ aborted' = aborted \cup {"ctl"}
  /\ proc' = IF "ctl" \in aborted THEN proc ELSE ProcAfterAbort(proc, "ctl")
  /\ obs' = [obs EXCEPT
       !.interruptedInFlight = @ \/ (proc.state = "running" /\ pc \in {"streaming", "yieldMsg"}),
       !.sessAborted = @ \/ (InSession /\ EffectiveSignal(args) = "ctl" /\ "ctl" \notin aborted)]
  /\ UNCHANGED <<args, calls, transport, sandboxes, pc>>

\* The caller aborts the signal (or the controller) it passed in the options.
AbortSignal ==
  /\ ~InTeardown
  /\ args.signal # "none"
  /\ EffectiveSignal(args) \notin aborted
  /\ aborted' = aborted \cup {EffectiveSignal(args)}
  /\ proc' = ProcAfterAbort(proc, EffectiveSignal(args))
  /\ obs' = [obs EXCEPT !.sessAborted = @ \/ InSession]
  /\ UNCHANGED <<args, calls, transport, sandboxes, pc, q>>

\* --------------------------------------------------- connect and setup
\* transport.connect up to the end of Sandbox.create.
ConnectCreate ==
  /\ pc = "connect"
  /\ UNCHANGED <<args, calls, aborted, proc>>
  /\ IF ~HasAuth(args)
       THEN /\ Fail("AuthenticationError", q, obs)
            /\ UNCHANGED <<transport, sandboxes>>
       ELSE \/ \* Sandbox.create rejects: wrapError(error, 'Failed to create sandbox')
               /\ Fail(wrapError("Error"), q, obs)
               /\ UNCHANGED <<transport, sandboxes>>
            \/ \* Sandbox.create resolves
               /\ sandboxes' = Append(sandboxes, NewSandbox)
               /\ LET t == TransportCreated(transport, Len(sandboxes) + 1) IN
                    IF args.snapshotId
                      THEN /\ transport' = TransportConnected(t)
                           /\ pc' = "setup"
                           /\ q' = q
                      ELSE /\ transport' = t
                           /\ pc' = "install"
                           /\ q' = q
               /\ obs' = [obs EXCEPT !.provisioned = Some(Len(sandboxes) + 1)]

\* installCLI() in a fresh context, then this.isConnected = true.
ConnectInstall ==
  /\ pc = "install"
  /\ UNCHANGED <<args, calls, sandboxes, aborted, proc>>
  /\ \/ /\ transport' = TransportConnected(transport)
        /\ pc' = "setup"
        /\ UNCHANGED <<q, obs>>
     \/ /\ Fail("CLIInstallError", q, obs)
        /\ UNCHANGED transport

\* executeSetup(): the shorthand setup and the onSetup hook succeed or throw;
\* on success run() yields the session_started message.
Setup ==
  /\ pc = "setup"
  /\ UNCHANGED <<args, calls, transport, sandboxes, aborted, proc>>
  /\ \/ /\ obs' = [obs EXCEPT !.yielded = Append(@, SessionStarted)]
        /\ pc' = "yieldInit"
        /\ q' = q
     \/ Fail("SandboxError", q, obs)

\* ------------------------------------------------------------ turn loop
\* buildConversationPrompt(history, newMessage): the parts of the prompt, in
\* order: one per history entry, then the new message.
buildConversationPrompt(history, newMessage) ==
  [i \in 1..Len(history) |->
     [role |-> IF history[i].role = "user" THEN "Human" ELSE "Assistant",
      kind |-> "history", content |-> history[i].content]]
  \o <<[role |-> "Human", kind |-> newMessage, content |-> <<>>]>>

\* The loop test, and for a new turn the call of transport.startSession up to
\* its first await (the version check).
LoopCheck(qq, ob) ==
  IF LoopContinues(qq.turn, MaxTurns(args), qq.isInterrupted)
    THEN LET q1 == [qq EXCEPT !.turn = @ + 1]
             fullPrompt ==
               IF qq.conversationHistory # <<>>
                 THEN buildConversationPrompt(qq.conversationHistory, qq.currentPrompt)
                 ELSE <<[role |-> "", kind |-> qq.currentPrompt, content |-> <<>>]>>
             oo == [ob EXCEPT !.sessionsStarted = @ + 1,
                               !.outbound = fullPrompt,
                               !.turnStart = Len(qq.messages),
                               !.sessAborted = FALSE,
                               !.startedWhileInterrupted = @ \/ qq.isInterrupted]
         IN IF transport.sandbox = None \/ ~transport.isConnected
              THEN /\ Fail("SandboxError", q1, oo)
                   /\ UNCHANGED transport
              ELSE /\ transport' = [transport EXCEPT
                                       !.currentSessionId = Some(obs.sessionsStarted + 1)]
                   /\ q' = q1
                   /\ obs' = oo
                   /\ pc' = "starting"
    ELSE /\ EndLoop(qq, ob)
         /\ UNCHANGED transport

\* next() after session_started: this.messages.push(initMessage), the locals
\* of the turn loop, and the first loop test.
PullAfterInit ==
  /\ pc = "yieldInit"
  /\ LoopCheck([q EXCEPT !.messages = Append(@, SessionStarted),
                         !.conversationHistory = <<>>, !.turn = 0,
                         !.currentPrompt = "prompt"], obs)
  /\ UNCHANGED <<args, calls, sandboxes, aborted, proc>>

\* startSession: the version check and the detached launch resolve, and the
\* abort listener is registered on the effective signal; or a runCommand rejects.
LaunchProcess ==
  /\ pc = "starting"
  /\ UNCHANGED <<args, calls, transport, sandboxes, aborted>>
  /\ \/ /\ \E script \in ScriptsAt(q.turn) :
             proc' = [state |-> "running", out |-> script, sigterm |-> 0,
                      listener |-> EffectiveSignal(args)]
        /\ pc' = "streaming"
        /\ UNCHANGED <<q, obs>>
     \/ LET sigAborted == EffectiveSignal(args) \in aborted
            e == StartSessionCatch("Error", sigAborted)
        IN /\ Fail(e, q, [obs EXCEPT !.sessFailure = Some([aborted |-> sigAborted, error |-> e])])
           /\ UNCHANGED proc

\* The session id generateSessionId() gave the query in its constructor; the
\* ids startSession generates are the numbers from 1.
QuerySessionId == Some(0)

\* QueryImpl.enrichMessage: the session_id of the message it returns, for a
\* message that arrives with session id sid (None: without one).
QueryEnrichMessage(sid) == IF sid # None THEN sid ELSE QuerySessionId

ForwardedNever(yielded, message) == yielded

\* const message = this.enrichMessage(rawMessage); ...; yield message --
\* what the consumer has received once run() has forwarded the message.
Forwarded(yielded, message) == Append(yielded, message)

\* The process prints a message; the transport yields it and run() pushes it
\* to the log and yields it to the consumer.
ProcEmit ==
  /\ pc = "streaming"
  /\ proc.state = "running"
  /\ proc.out # <<>>
  /\ proc' = [proc EXCEPT !.out = Tail(@)]
  /\ q' = [q EXCEPT !.messages = Append(@, Head(proc.out))]
  /\ obs' = [obs EXCEPT !.yielded = Forwarded(@, Head(proc.out)),
                        !.fromTransport = Append(@, Head(proc.out)),
                        !.streamSessions =
                           Append(@, QueryEnrichMessage(transport.currentSessionId))]
  /\ pc' = "yieldMsg"
  /\ UNCHANGED <<args, calls, transport, sandboxes, aborted>>

\* next() after a streamed message: if (this.isInterrupted) break, twice.
PullAfterMessage ==
  /\ pc = "yieldMsg"
  /\ UNCHANGED <<args, calls, transport, sandboxes, aborted, proc>>
  /\ IF q.isInterrupted
       THEN EndLoop(q, obs)
       ELSE /\ pc' = "streaming"
            /\ UNCHANGED <<q, obs>>

\* The process's output ends and command.wait() resolves; on exit code 0 the
\* turn's stream ends and run() looks for tool requests.  A process that got
\* SIGTERM before it had printed all its output exits with a non-zero code.
StreamEnd ==
  /\ pc = "streaming"
  /\ proc.out = <<>> \/ proc.sigterm > 0
  /\ UNCHANGED <<args, calls, transport, sandboxes, aborted>>
  /\ proc' = [proc EXCEPT !.state = "exited"]
  /\ \/ \* exit code # 0
        LET sigAborted == EffectiveSignal(args) \in aborted
            e == StartSessionCatch("CLIExecutionError", sigAborted)
        IN Fail(e, q, [obs EXCEPT !.sessFailure = Some([aborted |-> sigAborted, error |-> e])])
     \/ \* exit code 0
        /\ proc.out = <<>>
        /\ IF q.isInterrupted
             THEN EndLoop(q, obs)
             ELSE LET text == ExtractAssistantText(q.messages) IN
                    IF TurnIsFinal(text, args.tools)
                      THEN EndLoop(q, obs)
                      ELSE /\ q' = [q EXCEPT !.assistantText = text, !.toolRequests = text]
                           /\ pc' = "tools"
                           /\ obs' = obs

\* The tool requests have been handled one after the other; the history and
\* the next prompt are updated, and the loop test follows.
ToolsDone ==
  /\ pc = "tools"
  /\ LoopCheck([q EXCEPT
        !.conversationHistory =
           HistoryAfterTools(@, q.assistantText, ToolResults(q.toolRequests, args.tools)),
        !.currentPrompt = "continuation"],
        [obs EXCEPT !.toolTurnTexts = Append(@, JoinAssistantText(
           SubSeq(q.messages, obs.turnStart + 1, Len(q.messages))))])
  /\ UNCHANGED <<args, calls, sandboxes, aborted, proc>>

\* next() after session_ended: this.messages.push(endMessage); the generator
\* is finished and its finally block runs.
PullAfterEnd ==
  /\ pc = "yieldEnd"
  /\ q' = [q EXCEPT !.messages = Append(@, SessionEnded)]
  /\ obs' = [obs EXCEPT !.determined = [kind |-> "completed", error |-> Null]]
  /\ pc' = "tdHook"
  /\ UNCHANGED <<args, calls, transport, sandboxes, aborted, proc>>

\* ------------------------------------------------------------- teardown
\* handleTeardownAndLifecycle: the onTeardown hook.
TdHook ==
  /\ pc = "tdHook"
  /\ UNCHANGED <<args, calls, transport, sandboxes, aborted, proc, q>>
  /\ IF args.onTeardown /\ transport.isConnected
       THEN LET oo == [obs EXCEPT !.tdConnected = TRUE, !.tdTrace =
                         Append(@, [ev |-> "hook", success |-> q.querySuccess])]
            IN \/ /\ obs' = oo
                  /\ pc' = "tdSnapshot"
               \/ \* the hook throws
                  /\ obs' = [oo EXCEPT !.tdFailed = TRUE,
                                       !.outcome = TeardownCatch(oo.determined, "HookError")]
                  /\ pc' = "done"
       ELSE /\ obs' = [obs EXCEPT !.tdConnected = transport.isConnected]
            /\ pc' = "tdSnapshot"

\* handleSnapshot(success).
TdSnapshot ==
  /\ pc = "tdSnapshot"
  /\ UNCHANGED <<args, calls, aborted, proc>>
  /\ pc' = "tdClose"
  /\ LET attempt == transport.isConnected /\ ShouldSnapshot(args, q.querySuccess)
         oo == [obs EXCEPT !.tdTrace = Append(@, [ev |-> "snapshot", success |-> q.querySuccess]),
                           !.snapAttempted = attempt]
     IN IF attempt
          THEN IF ~CanSnapshot(transport)
                 THEN /\ obs' = [oo EXCEPT !.tdFailed = TRUE]
                      /\ UNCHANGED <<transport, sandboxes, q>>
                 ELSE \/ \* sandbox.snapshot() resolves
                         /\ sandboxes' = SandboxesAfterSnapshot(transport, sandboxes)
                         /\ transport' = TransportSnapshotted(transport)
                         /\ q' = [q EXCEPT !.snapshotId = transport.sandbox]
                         /\ obs' = oo
                      \/ \* sandbox.snapshot() rejects: logged by handleSnapshot
                         /\ obs' = [oo EXCEPT !.tdFailed = TRUE]
                         /\ UNCHANGED <<transport, sandboxes, q>>
          ELSE /\ obs' = oo
               /\ UNCHANGED <<transport, sandboxes, q>>

\* transport.close(), and the generator is done.
TdClose ==
  /\ pc = "tdClose"
  /\ UNCHANGED <<args, calls, aborted, proc, q>>
  /\ sandboxes' = SandboxesAfterClose(transport, sandboxes)
  /\ transport' = TransportClosed(transport)
  /\ pc' = "done"
  /\ \/ obs' = [obs EXCEPT !.tdTrace = Append(@, [ev |-> "close", success |-> q.querySuccess]),
                           !.outcome = obs.determined]
     \/ \* sandbox.stop() rejects: ignored by close()
        /\ transport.sandbox # None
        /\ obs' = [obs EXCEPT !.tdTrace = Append(@, [ev |-> "close", success |-> q.querySuccess]),
                              !.tdFailed = TRUE,
                              !.outcome = obs.determined]

Next ==
  \/ NextStart
  \/ ReturnBeforeStart
  \/ Return
  \/ Interrupt
  \/ AbortSignal
  \/ ConnectCreate
  \/ ConnectInstall
  \/ Setup
  \/ PullAfterInit
  \/ LaunchProcess
  \/ ProcEmit
  \/ PullAfterMessage
  \/ StreamEnd
  \/ ToolsDone
  \/ PullAfterEnd
  \/ TdHook
  \/ TdSnapshot
  \/ TdClose

Spec == Init /\ [][Next]_vars

\* ===================================================== a transport on its own
\* SpecTransport: one SandboxTransport driven directly through its public
\* methods, each call awaited before the next one is made.  args holds the
\* options every connect() call passes.
InitTransport ==
  /\ args \in {a \in ArgsSet :
        /\ a.maxTurns = None /\ a.tools = {} /\ ~a.onTeardown
        /\ a.snapshot = Null /\ a.snapshotEnabled /\ a.signal = "none"}
  /\ transport = NewTransport
  /\ sandboxes = <<>>
  /\ pc = "api"
  /\ q = InitQ
  /\ aborted = {}
  /\ proc = NoProc
  /\ calls = <<>>
  /\ obs = InitObs

\* The transport-level result an observer records for one call.
Called(oo, call, error) ==
  [oo EXCEPT !.lastCall = call, !.lastError = error,
             !.lastCallConnected = transport.isConnected]

\* Stopping a context ends the processes running in it.
CallsAfterStop(cs, t) ==
  [i \in 1..Len(cs) |->
     IF t.sandbox # None /\ cs[i].sandbox = The(t.sandbox) /\ cs[i].state = "running"
       THEN [cs[i] EXCEPT !.state = "exited"]
       ELSE cs[i]]

\* connect(options)
TConnect ==
  /\ pc = "api"
  /\ Len(sandboxes) < MaxSandboxes
  /\ UNCHANGED <<args, calls, pc, q, aborted, proc>>
  /\ IF ~HasAuth(args)
       THEN /\ obs' = [Called(obs, "connectFailed", "AuthenticationError") EXCEPT
                         !.sinceSnapshot = FALSE]
            /\ UNCHANGED <<transport, sandboxes>>
       ELSE \/ \* Sandbox.create rejects
               /\ obs' = [Called(obs, "connectFailed", wrapError("Error")) EXCEPT
                            !.sinceSnapshot = FALSE]
               /\ UNCHANGED <<transport, sandboxes>>
            \/ \* Sandbox.create resolves; from a snapshot, or installCLI succeeds
               /\ sandboxes' = Append(sandboxes, NewSandbox)
               /\ transport' = TransportConnected(TransportCreated(transport, Len(sandboxes) + 1))
               /\ obs' = [Called(obs, "connect", Null) EXCEPT !.sinceSnapshot = FALSE]
            \/ \* Sandbox.create resolves and installCLI throws
               /\ ~args.snapshotId
               /\ sandboxes' = Append(sandboxes, NewSandbox)
               /\ transport' = TransportCreated(transport, Len(sandboxes) + 1)
               /\ obs' = [Called(obs, "connectFailed", wrapError("CLIInstallError")) EXCEPT
                            !.sinceSnapshot = FALSE]

\* close(); a rejection of sandbox.stop() is ignored.
TClose ==
  /\ pc = "api"
  /\ UNCHANGED <<args, pc, q, aborted, proc>>
  /\ sandboxes' = SandboxesAfterClose(transport, sandboxes)
  /\ transport' = TransportClosed(transport)
  /\ calls' = CallsAfterStop(calls, transport)
  /\ \E rejected \in {r \in BOOLEAN : r => transport.sandbox # None} :
       obs' = [Called(obs, "close", Null) EXCEPT
                 !.everEnded = @ \/ transport.isConnected,
                 !.stopRejected = rejected]

\* createSnapshotWithInfo()
TSnapshot ==
  /\ pc = "api"
  /\ UNCHANGED <<args, pc, q, aborted, proc>>
  /\ IF ~CanSnapshot(transport)
       THEN /\ obs' = Called(obs, "snapshotFailed", "SandboxError")
            /\ UNCHANGED <<transport, sandboxes, calls>>
       ELSE \/ \* sandbox.snapshot() resolves
               /\ sandboxes' = SandboxesAfterSnapshot(transport, sandboxes)
               /\ transport' = TransportSnapshotted(transport)
               /\ calls' = CallsAfterStop(calls, transport)
               /\ obs' = [Called(obs, "snapshot", Null) EXCEPT
                            !.everEnded = @ \/ transport.isConnected,
                            !.sinceSnapshot = TRUE]
            \/ \* sandbox.snapshot() rejects
               /\ obs' = Called(obs, "snapshotFailed", "SandboxError")
               /\ UNCHANGED <<transport, sandboxes, calls>>

\* getSandboxContext()
TGetSandboxContext ==
  /\ pc = "api"
  /\ UNCHANGED <<args, calls, pc, q, aborted, proc, transport, sandboxes>>
  /\ obs' = IF transport.sandbox = None
              THEN Called(obs, "contextFailed", "SandboxError")
              ELSE Called(obs, "context", Null)

\* startSession(prompt, options) up to its first await: the guard, the
\* authentication check and the new session id.
TStartSession ==
  /\ pc = "api"
  /\ Len(calls) < MaxCalls
  /\ UNCHANGED <<args, pc, q, aborted, proc, sandboxes>>
  /\ IF transport.sandbox = None \/ ~transport.isConnected
       THEN /\ obs' = Called(obs, "sessionFailed", "SandboxError")
            /\ UNCHANGED <<transport, calls>>
       ELSE IF ~HasAuth(args)
         THEN /\ obs' = Called(obs, "sessionFailed", "AuthenticationError")
              /\ UNCHANGED <<transport, calls>>
         ELSE /\ transport' = [transport EXCEPT !.currentSessionId = Some(Len(calls) + 1)]
              /\ calls' = Append(calls, [sandbox |-> The(transport.sandbox),
                                         state |-> "starting"])
              /\ obs' = Called(obs, "session", Null)

\* A startSession call in progress: the version check and the detached
\* launch resolve in its context, or reject when the context is gone.
TLaunch(i) ==
  /\ calls[i].state = "starting"
  /\ calls' = [calls EXCEPT ![i].state =
                 IF Released(calls[i].sandbox) = 0 THEN "running" ELSE "failed"]
  /\ UNCHANGED <<args, pc, q, aborted, proc, transport, sandboxes, obs>>

\* The process of a startSession call exits and the call returns.
TExit(i) ==
  /\ calls[i].state = "running"
  /\ calls' = [calls EXCEPT ![i].state = "exited"]
  /\ UNCHANGED <<args, pc, q, aborted, proc, transport, sandboxes, obs>>

NextTransport ==
  \/ TConnect
  \/ TClose
  \/ TSnapshot
  \/ TGetSandboxContext
  \/ TStartSession
  \/ \E i \in 1..Len(calls) : TLaunch(i)
  \/ \E i \in 1..Len(calls) : TExit(i)

SpecTransport == InitTransport /\ [][NextTransport]_vars

\* ================================================ the setup phase in detail
\* SpecSetup: the same run, with executeSetup() followed await by await.  The
\* arguments also hold the setup shorthand (which of its parts are given, and
\* how many commands) and the onSetup / onSetupError hooks.
SetupConfigs ==
  [files : BOOLEAN, githubRepo : BOOLEAN, npmInstall : BOOLEAN,
   commands : 0..MaxCommands, onSetup : BOOLEAN, onSetupError : BOOLEAN]

Step(kind, index) == [kind |-> kind, index |-> index]

SetupStepsHookFirst(a) ==
  (IF a.onSetup THEN <<Step("onSetup", 0)>> ELSE <<>>)
  \o (IF a.files THEN <<Step("writeFiles", 0)>> ELSE <<>>)
  \o (IF a.githubRepo THEN <<Step("mkdir", 0), Step("clone", 0)>> ELSE <<>>)
  \o (IF a.npmInstall THEN <<Step("npmInstall", 0)>> ELSE <<>>)
  \o [i \in 1..a.commands |-> Step("command", i)]

\* executeSetup / executeSetupConfig: the awaited steps, in program order.
SetupSteps(a) ==
  (IF a.files THEN <<Step("writeFiles", 0)>> ELSE <<>>)
  \o (IF a.githubRepo THEN <<Step("mkdir", 0), Step("clone", 0)>> ELSE <<>>)
  \o (IF a.npmInstall THEN <<Step("npmInstall", 0)>> ELSE <<>>)
  \o [i \in 1..a.commands |-> Step("command", i)]
  \o (IF a.onSetup THEN <<Step("onSetup", 0)>> ELSE <<>>)

\* What a step can throw: sandbox.writeFiles rejects with a plain Error; a
\* command that exits non-zero makes the code throw a SandboxError; the user's
\* onSetup hook throws an Error or a value that is not an Error.
StepErrors(kind) ==
  CASE kind = "writeFiles" -> {"Error"}
    [] kind = "onSetup" -> {"Error", "NonError"}
    [] OTHER -> {"SandboxError"}

\* error instanceof Error
IsErrorInstance(e) == e # "NonError"

SetupCatchAlwaysCalls(a, e) == a.onSetupError

\* executeSetup's catch block: is the onSetupError hook called?
SetupCatchCalls(a, e) == a.onSetupError /\ IsErrorInstance(e)

InitSetup ==
  /\ args \in {a @@ c : a \in {b \in ArgsSet :
                                 /\ ~b.snapshotId /\ b.maxTurns = Some(1)
                                 /\ b.tools = ToolNames /\ b.onTeardown
                                 /\ b.snapshot = Null /\ b.snapshotEnabled
                                 /\ b.signal = "abortController"},
                      c \in SetupConfigs}
  /\ transport = NewTransport
  /\ sandboxes = <<>>
  /\ pc = "notStarted"
  /\ q = InitQ
  /\ aborted = {}
  /\ proc = NoProc
  /\ calls = <<>>
  /\ obs = InitObs

\* executeSetup(): the next awaited step resolves or throws.  After the last
\* step (or when there is none) executeSetup returns and run() yields the
\* session_started message.
SetupStep ==
  /\ pc = "setup"
  /\ UNCHANGED <<args, calls, transport, sandboxes, aborted, proc>>
  /\ LET steps == SetupSteps(args) IN
     IF q.setupDone = Len(steps)
       THEN /\ obs' = [obs EXCEPT !.yielded = Append(@, SessionStarted)]
            /\ pc' = "yieldInit"
            /\ q' = q
       ELSE LET step == steps[q.setupDone + 1]
                last == q.setupDone + 1 = Len(steps)
            IN \/ \* the step succeeds
                  /\ q' = [q EXCEPT !.setupDone = @ + 1]
                  /\ obs' = [obs EXCEPT
                       !.setupTrace = Append(@, [step |-> step, ok |-> TRUE]),
                       !.yielded = IF last THEN Append(@, SessionStarted) ELSE @]
                  /\ pc' = IF last THEN "yieldInit" ELSE "setup"
               \/ \* the step throws
                  \E e \in StepErrors(step.kind) :
                    LET oo == [obs EXCEPT
                                 !.setupTrace = Append(@, [step |-> step, ok |-> FALSE]),
                                 !.setupThrown = e]
                    IN IF SetupCatchCalls(args, e)
                         THEN /\ q' = [q EXCEPT !.setupError = e]
                              /\ obs' = [oo EXCEPT !.setupErrorCalls = @ + 1]
                              /\ pc' = "setupError"
                         ELSE Fail(e, q, oo)

\* The onSetupError hook returns or throws; executeSetup's catch block ends.
SetupErrorHook ==
  /\ pc = "setupError"
  /\ UNCHANGED <<args, calls, transport, sandboxes, aborted, proc>>
  /\ \/ \* the hook returns: throw error
        Fail(q.setupError, q, obs)
     \/ \* the hook throws: its error leaves the catch block
        Fail("HookError", q, obs)

NextSetup ==
  \/ NextStart
  \/ ReturnBeforeStart
  \/ Return
  \/ Interrupt
  \/ AbortSignal
  \/ ConnectCreate
  \/ ConnectInstall
  \/ SetupStep
  \/ SetupErrorHook
  \/ PullAfterInit
  \/ LaunchProcess
  \/ ProcEmit
  \/ PullAfterMessage
  \/ StreamEnd
  \/ ToolsDone
  \/ PullAfterEnd
  \/ TdHook
  \/ TdSnapshot
  \/ TdClose

SpecSetup == InitSetup /\ [][NextSetup]_vars

\* ============================================== one session's stream in detail
\* SpecSession: one transport and one direct startSession call on it, with
\* the process's stdout followed log event by log event.  A line of output
\* is one piece, the newline that ends it another; a log event carries one
\* or more pieces.
NL == [kind |-> "newline", id |-> 0]

\* valid: JSON of a well-formed message; badStructure: JSON that enrichMessage
\* rejects with a ParseError; notJson: JSON.parse throws; blank: only spaces.
LineKinds == {"valid", "badStructure", "notJson", "blank"}

Line(kind, id) == [kind |-> kind, id |-> id]

\* What the process prints on stdout: its lines, and whether the last one is
\* followed by a newline.
StdoutScripts ==
  {[lines |-> ls, terminated |-> t] :
     ls \in UNION {[1..n -> LineKinds] : n \in 0..MaxLines}, t \in BOOLEAN}

RECURSIVE Pieces(_, _, _)
\* The pieces of output of a script, from line i on.
Pieces(script, i, n) ==
  IF i > n THEN <<>>
  ELSE <<Line(script.lines[i], i)>>
       \o (IF i < n \/ script.terminated THEN <<NL>> ELSE <<>>)
       \o Pieces(script, i + 1, n)

RECURSIVE SplitLines(_, _, _)
\* buffer.split('\n'): the complete lines found in data, given the unfinished
\* line cur and the complete lines acc found so far; and the unfinished rest.
SplitLines(data, cur, acc) ==
  IF data = <<>> THEN [lines |-> acc, rest |-> cur]
  ELSE IF Head(data) = NL
         THEN SplitLines(Tail(data), <<>>, Append(acc, cur))
         ELSE SplitLines(Tail(data), Append(cur, Head(data)), acc)

\* line.trim() is not empty
NotBlank(line) == \E i \in 1..Len(line) : line[i].kind # "blank"

\* JSON.parse(line) and enrichMessage succeed: the line is one well-formed message.
Parses(line) == Len(line) = 1 /\ line[1].kind = "valid"

TrailingDropped(buffer) == FALSE

\* if (buffer.trim()) { ... yield message }: is the unfinished last line yielded?
TrailingYields(buffer) == NotBlank(buffer) /\ Parses(buffer)

\* The signal a direct startSession call listens on:
\* options.signal ?? options.abortController?.signal
TransportSignal(a) ==
  IF a.signal = "signal" THEN "ext"
  ELSE IF a.signal = "abortController" THEN "ctl" ELSE Null

\* The exit code of a process ended by SIGTERM.
SigtermExit == 143

ExitCodes == {0, 1}

Stderrs == {"", "boom"}

InitSession ==
  /\ args \in {a \in ArgsSet :
        /\ a.apiKey /\ ~a.oauthToken /\ ~a.snapshotId /\ a.maxTurns = None
        /\ a.tools = {} /\ ~a.onTeardown /\ a.snapshot = Null /\ a.snapshotEnabled
        /\ a.signal \in {"none", "signal"}}
  /\ transport = NewTransport
  /\ sandboxes = <<>>
  /\ pc = "api"
  /\ q = InitQ
  /\ aborted = {}
  /\ proc = NoProc
  /\ calls = <<>>
  /\ obs = InitObs

\* The one startSession call, once it has been made.
Call == calls[1]

\* startSession's catch block has thrown error e.
SessionFails(e, exitCode, stderr) ==
  /\ calls' = [calls EXCEPT ![1].state = "failed"]
  /\ obs' = [obs EXCEPT !.sessFailure =
               Some([aborted |-> TransportSignal(args) \in aborted, error |-> e,
                     exitCode |-> exitCode, stderr |-> stderr])]

\* connect() on the new transport.
SConnect ==
  /\ calls = <<>>
  /\ transport.sandbox = None
  /\ UNCHANGED <<args, calls, pc, q, aborted, proc, obs>>
  /\ sandboxes' = Append(sandboxes, NewSandbox)
  /\ \/ transport' = TransportConnected(TransportCreated(transport, Len(sandboxes) + 1))
     \/ \* installCLI throws
        transport' = TransportCreated(transport, Len(sandboxes) + 1)

\* startSession(prompt, options) up to its first await.
SStartSession ==
  /\ calls = <<>>
  /\ UNCHANGED <<args, pc, q, aborted, proc, sandboxes>>
  /\ IF transport.sandbox = None \/ ~transport.isConnected
       THEN /\ calls' = <<[sandbox |-> 0, state |-> "failed", buffer |-> <<>>, lines |-> <<>>]>>
            /\ obs' = [obs EXCEPT !.sessFailure =
                         Some([aborted |-> FALSE, error |-> "SandboxError",
                               exitCode |-> 0, stderr |-> ""])]
            /\ UNCHANGED transport
       ELSE /\ calls' = <<[sandbox |-> The(transport.sandbox), state |-> "starting",
                           buffer |-> <<>>, lines |-> <<>>]>>
            /\ transport' = [transport EXCEPT !.currentSessionId = Some(1)]
            /\ obs' = obs

\* The version check and the detached launch resolve and the abort listener
\* is registered; or a runCommand rejects.
SLaunch ==
  /\ calls # <<>> /\ Call.state = "starting"
  /\ UNCHANGED <<args, pc, q, aborted, transport, sandboxes>>
  /\ \/ /\ \E script \in StdoutScripts, code \in ExitCodes, err \in Stderrs :
             proc' = [state |-> "running", sigterm |-> 0,
                      listener |-> TransportSignal(args),
                      out |-> Pieces(script, 1, Len(script.lines)),
                      script |-> script, exitCode |-> code, stderr |-> err]
        /\ calls' = [calls EXCEPT ![1].state = "streaming"]
        /\ obs' = obs
     \/ /\ SessionFails(StartSessionCatch("Error", TransportSignal(args) \in aborted), 0, "")
        /\ proc' = proc

\* for await (const log of command.logs()): the next stdout event arrives;
\* buffer += log.data, and the complete lines are split off.
SRead ==
  /\ calls # <<>> /\ Call.state = "streaming"
  /\ proc.out # <<>>
  /\ UNCHANGED <<args, pc, q, aborted, transport, sandboxes, obs>>
  /\ \E k \in 1..MaxChunk :
       /\ k <= Len(proc.out)
       /\ LET split == SplitLines(SubSeq(proc.out, 1, k), Call.buffer, <<>>) IN
            /\ calls' = [calls EXCEPT ![1].buffer = split.rest,
                                      ![1].lines = split.lines,
                                      ![1].state = IF split.lines = <<>>
                                                     THEN "streaming" ELSE "lines"]
            /\ proc' = [proc EXCEPT !.out = SubSeq(@, k + 1, Len(@))]

\* for (const line of lines): the next complete line is skipped (blank, not
\* JSON, or a message enrichMessage rejects) or parsed, enriched and yielded.
SLine ==
  /\ calls # <<>> /\ Call.state = "lines"
  /\ UNCHANGED <<args, pc, q, aborted, transport, sandboxes, proc>>
  /\ LET line == Head(Call.lines)
         rest == Tail(Call.lines)
     IN IF NotBlank(line) /\ Parses(line)
          THEN /\ calls' = [calls EXCEPT ![1].lines = rest, ![1].state = "yield"]
               /\ obs' = [obs EXCEPT !.yielded = Append(@, line[1])]
          ELSE /\ calls' = [calls EXCEPT ![1].lines = rest,
                              ![1].state = IF rest = <<>> THEN "streaming" ELSE "lines"]
               /\ obs' = obs

\* The consumer requests the next element after a yielded message.
SPull ==
  /\ calls # <<>> /\ Call.state \in {"yield", "yieldTrailing"}
  /\ UNCHANGED <<args, pc, q, aborted, transport, sandboxes, proc, obs>>
  /\ calls' = [calls EXCEPT ![1].state =
                 IF Call.state = "yieldTrailing" THEN "waiting"
                 ELSE IF Call.lines = <<>> THEN "streaming" ELSE "lines"]

\* command.logs() ends; the rest of the buffer is parsed and yielded if it is
\* a message; then command.wait() is awaited.
SLogsEnd ==
  /\ calls # <<>> /\ Call.state = "streaming"
  /\ proc.out = <<>>
  /\ UNCHANGED <<args, pc, q, aborted, transport, sandboxes, proc>>
  /\ IF TrailingYields(Call.buffer)
       THEN /\ calls' = [calls EXCEPT ![1].state = "yieldTrailing"]
            /\ obs' = [obs EXCEPT !.yielded = Append(@, Call.buffer[1])]
       ELSE /\ calls' = [calls EXCEPT ![1].state = "waiting"]
            /\ obs' = obs

\* command.wait() resolves; a non-zero exit code throws a CLIExecutionError
\* with the exit code and result.stderr(), which the catch block rethrows or
\* replaces by an AbortError.
SWait ==
  /\ calls # <<>> /\ Call.state = "waiting"
  /\ UNCHANGED <<args, pc, q, aborted, transport, sandboxes>>
  /\ proc' = [proc EXCEPT !.state = "exited"]
  /\ IF proc.exitCode # 0
       THEN SessionFails(
              StartSessionCatch("CLIExecutionError", TransportSignal(args) \in aborted),
              proc.exitCode, proc.stderr)
       ELSE /\ calls' = [calls EXCEPT ![1].state = "returned"]
            /\ obs' = obs

\* The caller aborts the signal it passed; a registered listener sends
\* SIGTERM, and the killed process prints the rest of its output or not.
SAbort ==
  /\ TransportSignal(args) # Null
  /\ TransportSignal(args) \notin aborted
  /\ ~(calls # <<>> /\ Call.state \in {"failed", "returned"})
  /\ UNCHANGED <<args, calls, pc, q, transport, sandboxes, obs>>
  /\ aborted' = aborted \cup {TransportSignal(args)}
  /\ LET p == ProcAfterAbort(proc, TransportSignal(args)) IN
       IF p.sigterm > proc.sigterm
         THEN \E rest \in {p.out, <<>>} :
                proc' = [p EXCEPT !.out = rest, !.exitCode = SigtermExit]
         ELSE proc' = p

NextSession ==
  \/ SConnect
  \/ SStartSession
  \/ SLaunch
  \/ SRead
  \/ SLine
  \/ SPull
  \/ SLogsEnd
  \/ SWait
  \/ SAbort

SpecSession == InitSession /\ [][NextSession]_vars

\* ===================================================== the NDJSON parser
\* SpecParser: parseNDJSONStream (src/unnamed/part_002) reading one stream.
\* A text is a sequence of characters.  The JSON text of an object is
\* "<" payload ">"; "sp" is a space and "nl" the newline.
MessagePayloads == {"a", "b"}

\* An object without a type field: valid JSON that is not a message.
NoTypePayload == "x"

JsonText(payload) == <<"<", payload, ">">>

\* The lines a stream is made of: messages, a JSON object without a type, a
\* truncated object (not JSON), a line of spaces, an empty line, and a
\* message with a space before it.
LineTexts ==
  {JsonText(p) : p \in MessagePayloads \cup {NoTypePayload}}
  \cup {<<"<", "a">>, <<"sp">>, <<>>, <<"sp">> \o JsonText("a")}

RECURSIVE TrimLeft(_)
TrimLeft(text) ==
  IF text # <<>> /\ Head(text) = "sp" THEN TrimLeft(Tail(text)) ELSE text

RECURSIVE TrimRight(_)
TrimRight(text) ==
  IF text # <<>> /\ text[Len(text)] = "sp"
    THEN TrimRight(SubSeq(text, 1, Len(text) - 1)) ELSE text

\* line.trim()
Trim(text) == TrimRight(TrimLeft(text))

\* JSON.parse(trimmed) does not throw.
IsJson(text) ==
  Len(text) = 3 /\ text[1] = "<" /\ text[3] = ">"
    /\ text[2] \in MessagePayloads \cup {NoTypePayload}

\* parseLine(line): null for a blank line, the parsed message, or a
\* ParseError that carries the trimmed line.
parseLine(line) ==
  LET trimmed == Trim(line) IN
  IF trimmed = <<>> THEN [kind |-> "null", value |-> Null, line |-> <<>>]
  ELSE IF IsJson(trimmed) /\ trimmed[2] \in MessagePayloads
         THEN [kind |-> "message", value |-> trimmed[2], line |-> <<>>]
         ELSE [kind |-> "ParseError", value |-> Null, line |-> trimmed]

RECURSIVE SplitBufferDropsRest(_, _, _)
SplitBufferDropsRest(data, cur, acc) ==
  IF data = <<>> THEN [lines |-> acc, rest |-> <<>>]
  ELSE IF Head(data) = "nl"
         THEN SplitBufferDropsRest(Tail(data), <<>>, Append(acc, cur))
         ELSE SplitBufferDropsRest(Tail(data), Append(cur, Head(data)), acc)

RECURSIVE SplitBuffer(_, _, _)
\* lines = buffer.split('\n'); buffer = lines.pop() || '' -- for the buffer
\* cur followed by the characters data, with the complete lines acc so far.
SplitBuffer(data, cur, acc) ==
  IF data = <<>> THEN [lines |-> acc, rest |-> cur]
  ELSE IF Head(data) = "nl"
         THEN SplitBuffer(Tail(data), <<>>, Append(acc, cur))
         ELSE SplitBuffer(Tail(data), Append(cur, Head(data)), acc)

RECURSIVE JoinLines(_, _)
\* The characters of a stream: its lines, each followed by a newline, except
\* the last one when the stream is not terminated.
JoinLines(lines, terminated) ==
  IF lines = <<>> THEN <<>>
  ELSE Head(lines)
       \o (IF Len(lines) > 1 \/ terminated THEN <<"nl">> ELSE <<>>)
       \o JoinLines(Tail(lines), terminated)

ParserInputs ==
  {[lines |-> ls, terminated |-> t] :
     ls \in UNION {[1..n -> LineTexts] : n \in 0..MaxInputLines}, t \in BOOLEAN}

\* The generator object exists, its body has not started; the stream holds
\* the characters of one input.
InitParser ==
  /\ args \in {a \in ArgsSet :
        /\ a.apiKey /\ ~a.oauthToken /\ ~a.snapshotId /\ a.maxTurns = None
        /\ a.tools = {} /\ ~a.onTeardown /\ a.snapshot = Null /\ a.snapshotEnabled
        /\ a.signal = "none"}
  /\ transport = NewTransport
  /\ sandboxes = <<>>
  /\ pc = "api"
  /\ q = InitQ
  /\ aborted = {}
  /\ \E input \in ParserInputs :
       proc = [input |-> input, out |-> JoinLines(input.lines, input.terminated),
               locked |-> FALSE]
  /\ calls = <<[state |-> "created", buffer |-> <<>>, lines |-> <<>>]>>
  /\ obs = [yielded |-> <<>>, thrown |-> None, nextAfterThrow |-> Null,
            reads |-> 0, cutMidLine |-> FALSE]

\* The parseNDJSONStream generator.
Gen == calls[1]

\* parseLine threw inside the generator: the finally block releases the
\* reader and the error leaves the generator, which is then finished.
ParserThrows(r) ==
  /\ calls' = [calls EXCEPT ![1].state = "thrown", ![1].lines = <<>>]
  /\ proc' = [proc EXCEPT !.locked = FALSE]
  /\ obs' = [obs EXCEPT !.thrown = Some(r.line)]

\* The first next(): stream.getReader(), new TextDecoder(), buffer = ''.
PStart ==
  /\ Gen.state = "created"
  /\ UNCHANGED <<args, transport, sandboxes, pc, q, aborted, obs>>
  /\ proc' = [proc EXCEPT !.locked = TRUE]
  /\ calls' = [calls EXCEPT ![1].state = "reading"]

\* reader.read() returns a chunk: it is appended to the buffer, the buffer
\* is split at the newlines and the last piece is kept.
PRead ==
  /\ Gen.state = "reading"
  /\ UNCHANGED <<args, transport, sandboxes, pc, q, aborted>>
  /\ \E n \in 1..MaxRead :
       /\ n <= Len(proc.out)
       /\ LET chunk == SubSeq(proc.out, 1, n)
              split == SplitBuffer(chunk, Gen.buffer, <<>>)
          IN /\ proc' = [proc EXCEPT !.out = SubSeq(@, n + 1, Len(@))]
             /\ calls' = [calls EXCEPT
                  ![1].buffer = split.rest,
                  ![1].lines = split.lines,
                  ![1].state = IF split.lines = <<>> THEN "reading" ELSE "lines"]
             /\ obs' = [obs EXCEPT
                  !.reads = IF @ < 2 THEN @ + 1 ELSE @,
                  !.cutMidLine = @ \/ (/\ split.rest # <<>> /\ n < Len(proc.out)
                                   /\ proc.out[n + 1] # "nl")]

\* One iteration of for (const line of lines): parseLine(line), then the
\* message is yielded, a blank line is passed over, or the error is thrown.
PLine ==
  /\ Gen.state = "lines"
  /\ UNCHANGED <<args, transport, sandboxes, pc, q, aborted>>
  /\ LET r == parseLine(Head(Gen.lines))
         rest == Tail(Gen.lines)
     IN CASE r.kind = "message" ->
               /\ calls' = [calls EXCEPT ![1].lines = rest, ![1].state = "yield"]
               /\ obs' = [obs EXCEPT !.yielded = Append(@, r.value)]
               /\ proc' = proc
          [] r.kind = "null" ->
               /\ calls' = [calls EXCEPT ![1].lines = rest,
                              ![1].state = IF rest = <<>> THEN "reading" ELSE "lines"]
               /\ UNCHANGED <<obs, proc>>
          [] r.kind = "ParseError" -> ParserThrows(r)

\* The consumer calls next() after a yielded message.
PPull ==
  /\ Gen.state \in {"yield", "yieldLast"}
  /\ UNCHANGED <<args, transport, sandboxes, pc, q, aborted, obs>>
  /\ IF Gen.state = "yieldLast"
       THEN /\ calls' = [calls EXCEPT ![1].state = "done"]
            /\ proc' = [proc EXCEPT !.locked = FALSE]
       ELSE /\ calls' = [calls EXCEPT ![1].state =
                           IF Gen.lines = <<>> THEN "reading" ELSE "lines"]
            /\ proc' = proc

\* reader.read() reports done: a buffer that is not blank is parsed as the
\* last line, then the loop ends and the reader is released.
PDone ==
  /\ Gen.state = "reading"
  /\ proc.out = <<>>
  /\ UNCHANGED <<args, transport, sandboxes, pc, q, aborted>>
  /\ LET r == parseLine(Gen.buffer)
     IN CASE r.kind = "message" ->
               /\ calls' = [calls EXCEPT ![1].state = "yieldLast"]
               /\ obs' = [obs EXCEPT !.yielded = Append(@, r.value)]
               /\ proc' = proc
          [] r.kind = "null" ->
               /\ calls' = [calls EXCEPT ![1].state = "done"]
               /\ proc' = [proc EXCEPT !.locked = FALSE]
               /\ obs' = obs
          [] r.kind = "ParseError" -> ParserThrows(r)

\* A consumer that caught the ParseError calls next() again: the generator
\* has finished and reports done.
PNextAfterThrow ==
  /\ Gen.state = "thrown"
  /\ obs.nextAfterThrow = Null
  /\ UNCHANGED <<args, transport, sandboxes, pc, q, aborted, proc, calls>>
  /\ obs' = [obs EXCEPT !.nextAfterThrow = "done"]

NextParser ==
  \/ PStart
  \/ PRead
  \/ PLine
  \/ PPull
  \/ PDone
  \/ PNextAfterThrow

SpecParser == InitParser /\ [][NextParser]_vars

\* ==================================================== message enrichment
\* SpecEnrich: SandboxTransport.enrichMessage applied to raw values.
\* A JavaScript value is a triple of strings: its kind and two strings that
\* tell values of one kind apart (for an object: two of its properties).
Undefined == <<"undefined", "", "">>

NullValue == <<"null", "", "">>

Str(s) == <<"string", s, "">>

NumberValue == <<"number", "123", "">>

Obj(a, b) == <<"object", a, b>>

\* typeof v
TypeOf(v) == IF v[1] \in {"object", "null", "array"} THEN "object" ELSE v[1]

\* !v is false
Truthy(v) == v[1] \in {"object", "array", "number"} \/ (v[1] = "string" /\ v[2] # "")

VALID_MESSAGE_TYPES ==
  {"system", "user", "assistant", "result", "tool_use", "progress", "error"}

\* The properties of a raw value: every one can be missing (Undefined).
RawFields ==
  [type : {Undefined, NumberValue, NullValue, Str("unknown_type")}
            \cup {Str(t) : t \in VALID_MESSAGE_TYPES},
   uuid : {Undefined, Str("existing-uuid"), NumberValue},
   session_id : {Undefined, Str("existing-session"), NullValue},
   parent_tool_use_id : {Undefined, Str("tool-123"), NullValue},
   message : {Undefined, Obj("assistant", "Hello!"), Str("Loading..."), NullValue},
   subtype : {Undefined, Str("error_max_turns"), NumberValue},
   error : {Undefined, Obj("E_CODE", "failed"), Str("boom")},
   name : {Undefined, Str("calculator")}]

NoFields ==
  [type |-> Undefined, uuid |-> Undefined, session_id |-> Undefined,
   parent_tool_use_id |-> Undefined, message |-> Undefined,
   subtype |-> Undefined, error |-> Undefined, name |-> Undefined]

\* The values enrichMessage is given: objects, and values that are not
\* objects or have no properties.
RawValues ==
  {[kind |-> "object", f |-> f] : f \in RawFields}
  \cup {[kind |-> k, f |-> NoFields] :
          k \in {"null", "undefined", "string", "number", "boolean", "array"}}

\* What generateUuid() and generateSessionId() can return.
GeneratedIds ==
  [uuid : {"generated-uuid-1", "generated-uuid-2"}, session : {"session_generated"}]

\* this.currentSessionId
CurrentSessionIds == {Null, "session_current"}

isValidMessageStructureAnyString(raw) ==
  raw.kind \in {"object", "array"} /\ TypeOf(raw.f.type) = "string"

isValidMessageStructure(raw) ==
  /\ raw.kind \in {"object", "array"}
  /\ TypeOf(raw.f.type) = "string"
  /\ raw.f.type[2] \in VALID_MESSAGE_TYPES

IdentityFieldsKeepRaw(msg, currentSessionId, gen) == msg

IdentityFieldsAlwaysFresh(msg, currentSessionId, gen) ==
  [msg EXCEPT
     !.uuid = Str(gen.uuid),
     !.session_id = Str(gen.session),
     !.parent_tool_use_id = NullValue]

\* enriched = {...msg, uuid, session_id, parent_tool_use_id}
IdentityFields(msg, currentSessionId, gen) ==
  [msg EXCEPT
     !.uuid = IF TypeOf(@) = "string" THEN @ ELSE Str(gen.uuid),
     !.session_id =
        IF TypeOf(@) = "string" THEN @
        ELSE IF currentSessionId # Null THEN Str(currentSessionId)
             ELSE Str(gen.session),
     !.parent_tool_use_id = IF TypeOf(@) = "string" THEN @ ELSE NullValue]

TypeDefaultsNone(enriched) == enriched

\* switch (messageType): the defaults of assistant, user, result and error.
TypeDefaults(enriched) ==
  LET messageType == enriched.type[2] IN
  CASE messageType \in {"assistant", "user"} ->
         IF ~Truthy(enriched.message) \/ TypeOf(enriched.message) # "object"
           THEN [enriched EXCEPT !.message = Obj(messageType, "[]")]
           ELSE enriched
    [] messageType = "result" ->
         IF TypeOf(enriched.subtype) # "string"
           THEN [enriched EXCEPT !.subtype = Str("success")]
           ELSE enriched
    [] messageType = "error" ->
         IF ~Truthy(enriched.error) \/ TypeOf(enriched.error) # "object"
           THEN [enriched EXCEPT
                   !.error = Obj("UNKNOWN_ERROR", "Unknown error occurred")]
           ELSE enriched
    [] OTHER -> enriched

\* enrichMessage(rawMessage): a ParseError, or the enriched message.
enrichMessage(raw, currentSessionId, gen) ==
  IF ~isValidMessageStructure(raw)
    THEN [kind |-> "ParseError", f |-> raw.f]
    ELSE [kind |-> "message",
          f |-> TypeDefaults(IdentityFields(raw.f, currentSessionId, gen))]

\* A transport and one raw value; enrichMessage has not been called.
InitEnrich ==
  /\ args \in {a \in ArgsSet :
        /\ a.apiKey /\ ~a.oauthToken /\ ~a.snapshotId /\ a.maxTurns = None
        /\ a.tools = {} /\ ~a.onTeardown /\ a.snapshot = Null /\ a.snapshotEnabled
        /\ a.signal = "none"}
  /\ transport = NewTransport
  /\ sandboxes = <<>>
  /\ pc = "api"
  /\ q = InitQ
  /\ aborted = {}
  /\ \E raw \in RawValues : proc = [raw |-> raw]
  /\ calls = <<>>
  /\ obs = InitObs

\* enrichMessage(raw)
EEnrich ==
  /\ calls = <<>>
  /\ UNCHANGED <<args, transport, sandboxes, pc, q, aborted, proc, obs>>
  /\ \E sid \in CurrentSessionIds, gen \in GeneratedIds :
       calls' = <<[raw |-> proc.raw, out |-> enrichMessage(proc.raw, sid, gen)]>>

\* enrichMessage(enriched): the message returned by the first call is
\* enriched again, possibly in another session.
EEnrichAgain ==
  /\ Len(calls) = 1
  /\ calls[1].out.kind = "message"
  /\ UNCHANGED <<args, transport, sandboxes, pc, q, aborted, proc, obs>>
  /\ \E sid \in CurrentSessionIds, gen \in GeneratedIds :
       LET again == [kind |-> "object", f |-> calls[1].out.f]
       IN calls' = Append(calls, [raw |-> again,
                                  out |-> enrichMessage(again, sid, gen)])

NextEnrich ==
  \/ EEnrich
  \/ EEnrichAgain

SpecEnrich == InitEnrich /\ [][NextEnrich]_vars

\* ================================================ lines of a live session
\* SpecLines: the line loop of SandboxTransport.startSession with the
\* messages it yields.  A stdout line is JSON text of a raw value, text that
\* is not JSON, or blank.
JsonLine(raw) == [text |-> "json", value |-> raw]

StdoutLineSet ==
  {JsonLine([kind |-> "object", f |-> f]) :
     f \in {[NoFields EXCEPT !.type = Str("assistant")],
            [NoFields EXCEPT !.type = Str("result"),
                             !.uuid = Str("existing-uuid")],
            [NoFields EXCEPT !.type = Str("unknown_type")],
            [NoFields EXCEPT !.name = Str("calculator")]}}
  \cup {JsonLine([kind |-> "number", f |-> NoFields]),
        [text |-> "notJson", value |-> [kind |-> "undefined", f |-> NoFields]],
        [text |-> "blank", value |-> [kind |-> "undefined", f |-> NoFields]]}

LineOutcomePropagates(line, currentSessionId, gen) ==
  IF line.text = "blank" THEN [kind |-> "skip", f |-> NoFields]
  ELSE IF line.text # "json" THEN [kind |-> "skip", f |-> NoFields]
  ELSE LET m == enrichMessage(line.value, currentSessionId, gen)
       IN IF m.kind = "message" THEN [kind |-> "yield", f |-> m.f]
          ELSE [kind |-> "throw", f |-> NoFields]

\* if (line.trim()) { try { JSON.parse; enrichMessage; yield } catch {...} }
\* for one line: the message is yielded, or the line is skipped.
LineOutcome(line, currentSessionId, gen) ==
  IF line.text = "blank" THEN [kind |-> "skip", f |-> NoFields]
  ELSE IF line.text # "json" THEN [kind |-> "skip", f |-> NoFields]
  ELSE LET m == enrichMessage(line.value, currentSessionId, gen)
       IN IF m.kind = "message" THEN [kind |-> "yield", f |-> m.f]
          ELSE [kind |-> "skip", f |-> NoFields]

\* The process has been started and has printed nothing yet; the last line
\* printed may lack its newline and is then handled after the loop.
InitLines ==
  /\ args \in {a \in ArgsSet :
        /\ a.apiKey /\ ~a.oauthToken /\ ~a.snapshotId /\ a.maxTurns = None
        /\ a.tools = {} /\ ~a.onTeardown /\ a.snapshot = Null /\ a.snapshotEnabled
        /\ a.signal = "none"}
  /\ transport = NewTransport
  /\ sandboxes = <<>>
  /\ pc = "api"
  /\ q = InitQ
  /\ aborted = {}
  /\ \E ls \in UNION {[1..n -> StdoutLineSet] : n \in 0..MaxStdoutLines},
        t \in BOOLEAN :
       proc = [input |-> ls, terminated |-> t, rest |-> ls]
  /\ calls = <<[state |-> "lines"]>>
  /\ obs = [yielded |-> <<>>, skipped |-> 0]

\* The next line is handled: in the loop, or after it for a last line
\* without a newline.
LLine ==
  /\ calls[1].state = "lines"
  /\ proc.rest # <<>>
  /\ UNCHANGED <<args, transport, sandboxes, pc, q, aborted>>
  /\ proc' = [proc EXCEPT !.rest = Tail(@)]
  /\ \E gen \in GeneratedIds :
       LET r == LineOutcome(Head(proc.rest), "session_current", gen)
       IN CASE r.kind = "yield" ->
                 /\ calls' = [calls EXCEPT ![1].state = "yield"]
                 /\ obs' = [obs EXCEPT !.yielded = Append(@, r.f)]
            [] r.kind = "skip" ->
                 /\ calls' = calls
                 /\ obs' = [obs EXCEPT !.skipped = IF @ < 2 THEN @ + 1 ELSE @]
            [] r.kind = "throw" ->
                 /\ calls' = [calls EXCEPT ![1].state = "failed"]
                 /\ obs' = obs

\* The consumer asks for the next message.
LPull ==
  /\ calls[1].state = "yield"
  /\ UNCHANGED <<args, transport, sandboxes, pc, q, aborted, proc, obs>>
  /\ calls' = [calls EXCEPT ![1].state = "lines"]

\* The output has ended and every line has been handled.
LEnd ==
  /\ calls[1].state = "lines"
  /\ proc.rest = <<>>
  /\ UNCHANGED <<args, transport, sandboxes, pc, q, aborted, proc, obs>>
  /\ calls' = [calls EXCEPT ![1].state = "waiting"]

NextLines ==
  \/ LLine
  \/ LPull
  \/ LEnd

SpecLines == InitLines /\ [][NextLines]_vars

\* ================================================================ tools
\* SpecTools: executeTool (src/unnamed/part_005) and the tool loop of
\* QueryImpl.run.  A tool's schema accepts the inputs "ok" and "okExtra" (an
\* object with one more key, which parsing strips); its handler returns a
\* result, returns an error result, throws an Error or throws another value.
HandlerBehaviours == {"returns", "returnsError", "throwsError", "throwsValue"}

ToolInputs == {"ok", "okExtra", "bad"}

\* tool.schema.safeParse(input)
safeParse(input) ==
  IF input = "bad" THEN [success |-> FALSE, data |-> Null, errors |-> "a: Required"]
  ELSE [success |-> TRUE, data |-> "ok", errors |-> Null]

\* await tool.handler(data)
Handler(tool, data) ==
  CASE tool.handler = "returns" ->
         [threw |-> FALSE, isError |-> FALSE, text |-> <<tool.name, data>>]
    [] tool.handler = "returnsError" ->
         [threw |-> FALSE, isError |-> TRUE, text |-> <<tool.name, "failed">>]
    [] tool.handler = "throwsError" ->
         [threw |-> TRUE, isError |-> TRUE, text |-> <<"Error", "Something went wrong">>]
    [] tool.handler = "throwsValue" ->
         [threw |-> TRUE, isError |-> TRUE, text |-> <<"string", "boom">>]

executeToolUnvalidated(tool, input) ==
  LET h == Handler(tool, input) IN
  [isError |-> h.isError, text |-> h.text, invoked |-> TRUE, data |-> input]

\* executeTool(tool, input): the ToolResult (its isError flag and its text as
\* a prefix and a detail), and whether the handler was invoked and with what.
executeTool(tool, input) ==
  LET parseResult == safeParse(input) IN
  IF ~parseResult.success
    THEN [isError |-> TRUE, text |-> <<"Validation error", parseResult.errors>>,
          invoked |-> FALSE, data |-> Null]
    ELSE LET h == Handler(tool, parseResult.data) IN
         IF h.threw
           THEN [isError |-> TRUE,
                 text |-> <<"Tool execution error",
                            IF h.text[1] = "Error" THEN h.text[2] ELSE "Unknown error">>,
                 invoked |-> TRUE, data |-> parseResult.data]
           ELSE [isError |-> h.isError, text |-> h.text,
                 invoked |-> TRUE, data |-> parseResult.data]

\* The tools given to query(): calc with any handler, and possibly echo.
ToolMaps ==
  {[calc |-> Some([name |-> "calc", handler |-> h]), echo |-> e, nope |-> None] :
     h \in HandlerBehaviours,
     e \in {None, Some([name |-> "echo", handler |-> "returns"])}}

\* The assistant text of a turn is a sequence of segments: a request in a
\* fenced code block, a request written inline, or prose.
Segments ==
  [form : {"codeBlock", "inline"}, tool : {"calc", "echo", "nope"}, input : ToolInputs]
  \cup {[form |-> "prose", tool |-> "", input |-> "ok"]}

AssistantTexts == UNION {[1..n -> Segments] : n \in 1..MaxSegments}

RECURSIVE RequestsOfForm(_, _, _)
\* while ((match = pattern.exec(text)) !== null): the requests one pattern
\* finds from segment i on, each with the place where it was found.
RequestsOfForm(text, form, i) ==
  IF i > Len(text) THEN <<>>
  ELSE (IF text[i].form = form
          THEN <<[tool |-> text[i].tool, input |-> text[i].input, pos |-> i]>>
          ELSE <<>>)
       \o RequestsOfForm(text, form, i + 1)

\* parseToolRequestsFromText(text): the code blocks, or else the inline JSON.
parseToolRequestsFromText(text) ==
  LET requests == RequestsOfForm(text, "codeBlock", 1) IN
  IF requests = <<>> THEN RequestsOfForm(text, "inline", 1) ELSE requests

HandleRequestRethrows(toolMap, toolReq) ==
  IF toolMap[toolReq.tool] = None
    THEN [kind |-> "Unknown tool", tool |-> toolReq.tool,
          executed |-> <<>>, text |-> <<>>]
    ELSE LET result == executeTool(The(toolMap[toolReq.tool]), toolReq.input) IN
         [kind |-> IF result.text[1] = "Tool execution error" THEN "abort" ELSE "result",
          tool |-> toolReq.tool,
          executed |-> <<[tool |-> The(toolMap[toolReq.tool]),
                          input |-> toolReq.input, out |-> result]>>,
          text |-> result.text]

\* One iteration of for (const toolReq of toolRequests): the text pushed
\* to toolResults, and the executeTool call made, if any.
HandleRequest(toolMap, toolReq) ==
  IF toolMap[toolReq.tool] = None
    THEN [kind |-> "Unknown tool", tool |-> toolReq.tool,
          executed |-> <<>>, text |-> <<>>]
    ELSE LET result == executeTool(The(toolMap[toolReq.tool]), toolReq.input) IN
         [kind |-> "result", tool |-> toolReq.tool,
          executed |-> <<[tool |-> The(toolMap[toolReq.tool]),
                          input |-> toolReq.input, out |-> result]>>,
          text |-> result.text]

\* A turn has ended with tool requests; toolResults = [].
InitTools ==
  /\ args \in {a \in ArgsSet :
        /\ a.apiKey /\ ~a.oauthToken /\ ~a.snapshotId /\ a.maxTurns = None
        /\ a.tools = ToolNames /\ ~a.onTeardown /\ a.snapshot = Null
        /\ a.snapshotEnabled /\ a.signal = "none"}
  /\ transport = NewTransport
  /\ sandboxes = <<>>
  /\ pc = "tools"
  /\ q = InitQ
  /\ aborted = {}
  /\ \E toolMap \in ToolMaps, text \in AssistantTexts :
       /\ parseToolRequestsFromText(text) # <<>>
       /\ proc = [toolMap |-> toolMap, assistantText |-> text,
                  toolRequests |-> parseToolRequestsFromText(text)]
  /\ calls = <<>>
  /\ obs = [toolResults |-> <<>>, executed |-> <<>>, handled |-> 0]

\* The next request is handled.
XHandle ==
  /\ pc = "tools"
  /\ obs.handled < Len(proc.toolRequests)
  /\ UNCHANGED <<args, transport, sandboxes, q, aborted, proc, calls>>
  /\ LET r == HandleRequest(proc.toolMap, proc.toolRequests[obs.handled + 1])
     IN /\ obs' = [obs EXCEPT
                     !.handled = @ + 1,
                     !.executed = @ \o r.executed,
                     !.toolResults =
                        IF r.kind = "abort" THEN @
                        ELSE Append(@, [kind |-> r.kind, tool |-> r.tool,
                                        text |-> r.text])]
        /\ pc' = IF r.kind = "abort" THEN "failed" ELSE pc

\* Every request has been handled: the results are joined into the next
\* prompt and the loop goes on.
XDone ==
  /\ pc = "tools"
  /\ obs.handled = Len(proc.toolRequests)
  /\ UNCHANGED <<args, transport, sandboxes, q, aborted, proc, calls, obs>>
  /\ pc' = "loopCheck"

NextTools ==
  \/ XHandle
  \/ XDone

SpecTools == InitTools /\ [][NextTools]_vars

\* ============================================================ snapshots
\* SpecSnapshot: QueryImpl.handleSnapshot at the end of a run, and
\* Query.createSnapshot calls made by the caller meanwhile.  Each call of
\* sandbox.snapshot() is awaited: it starts in one step and settles in another.
RECURSIVE updateResultMessageWithSnapshot(_, _, _)
\* Scanning this.messages from index i down, the first result message found
\* gets the snapshot; the scan stops there.
updateResultMessageWithSnapshot(messages, i, snapshotId) ==
  IF i = 0 THEN messages
  ELSE IF messages[i].type = "result"
         THEN [messages EXCEPT ![i].snapshotId = Some(snapshotId)]
         ELSE updateResultMessageWithSnapshot(messages, i - 1, snapshotId)

\* The run has reached handleSnapshot(success) with a connected transport.
InitSnapshot ==
  /\ args \in {a @@ [onSnapshot |-> c] :
        a \in {b \in ArgsSet :
                 /\ b.apiKey /\ ~b.oauthToken /\ ~b.snapshotId /\ b.maxTurns = None
                 /\ b.tools = {} /\ ~b.onTeardown /\ b.signal = "none"},
        c \in {"none", "returns", "throws"}}
  /\ (args.snapshot = Null => args.onSnapshot = "none")
  /\ transport = TransportConnected(TransportCreated(NewTransport, 1))
  /\ sandboxes = <<NewSandbox>>
  /\ pc = "tdSnapshot"
  /\ \E log \in UNION {[1..n -> {"assistant", "result"}] : n \in 0..MaxLog},
        success \in BOOLEAN :
       q = [InitQ EXCEPT
              !.isStarted = TRUE, !.querySuccess = success,
              !.messages = [i \in 1..Len(log) |-> [type |-> log[i], snapshotId |-> None]]]
  /\ aborted = {}
  /\ proc = NoProc
  /\ calls = <<>>
  /\ obs = [snapshotCalls |-> 0, autoCreated |-> None, autoCallbacks |-> 0,
            manualCreated |-> 0]

\* handleSnapshot(success) up to await this.sandbox.snapshot().
HBegin ==
  /\ pc = "tdSnapshot"
  /\ UNCHANGED <<args, transport, sandboxes, q, aborted, proc, calls>>
  /\ IF /\ transport.isConnected
        /\ ShouldSnapshot(args, q.querySuccess)
        /\ CanSnapshot(transport)
       THEN /\ pc' = "tdSnapshotWait"
            /\ obs' = [obs EXCEPT !.snapshotCalls = @ + 1]
       ELSE /\ pc' = "tdClose"
            /\ obs' = obs

\* sandbox.snapshot() settles and handleSnapshot goes on to its end: the
\* fields, the onSnapshot callback, the last result message; an exception
\* in the try block is logged.
HEnd ==
  /\ pc = "tdSnapshotWait"
  /\ UNCHANGED <<args, aborted, proc, calls>>
  /\ pc' = "tdClose"
  /\ \/ /\ sandboxes' = [sandboxes EXCEPT ![1].snaps = @ + 1]
        /\ transport' = TransportSnapshotted(transport)
        /\ obs' = [obs EXCEPT
                     !.autoCreated = Some(1),
                     !.autoCallbacks = IF args.onSnapshot # "none" THEN @ + 1 ELSE @]
        /\ q' = [q EXCEPT
                   !.snapshotId = Some(1),
                   !.messages =
                      IF args.onSnapshot = "throws" THEN @
                      ELSE updateResultMessageWithSnapshot(@, Len(@), 1)]
     \/ \* sandbox.snapshot() rejects
        UNCHANGED <<sandboxes, transport, obs, q>>

\* transport.close() at the end of the teardown.
HClose ==
  /\ pc = "tdClose"
  /\ UNCHANGED <<args, q, aborted, proc, calls, obs>>
  /\ sandboxes' = SandboxesAfterClose(transport, sandboxes)
  /\ transport' = TransportClosed(transport)
  /\ pc' = "done"

\* Query.createSnapshot() up to await this.sandbox.snapshot(); it throws at
\* once when the transport is not connected.
MBegin ==
  /\ Len(calls) < MaxManual
  /\ UNCHANGED <<args, transport, sandboxes, q, aborted, proc, pc>>
  /\ IF transport.isConnected /\ CanSnapshot(transport)
       THEN /\ calls' = Append(calls, [state |-> "waiting"])
            /\ obs' = [obs EXCEPT !.snapshotCalls = @ + 1]
       ELSE /\ calls' = Append(calls, [state |-> "threw"])
            /\ obs' = obs

\* sandbox.snapshot() of a manual call settles.
MEnd ==
  \E i \in 1..Len(calls) :
    /\ calls[i].state = "waiting"
    /\ UNCHANGED <<args, aborted, proc, pc>>
    /\ \/ /\ calls' = [calls EXCEPT ![i].state = "returned"]
          /\ sandboxes' = [sandboxes EXCEPT ![1].snaps = @ + 1]
          /\ transport' = TransportSnapshotted(transport)
          /\ q' = [q EXCEPT !.snapshotId = Some(1)]
          /\ obs' = [obs EXCEPT !.manualCreated = @ + 1]
       \/ /\ calls' = [calls EXCEPT ![i].state = "threw"]
          /\ UNCHANGED <<sandboxes, transport, q, obs>>

NextSnapshot ==
  \/ HBegin
  \/ HEnd
  \/ HClose
  \/ MBegin
  \/ MEnd

SpecSnapshot == InitSnapshot /\ [][NextSnapshot]_vars

\* ============================================== the conversation client
\* SpecClient: one VercelClaudeClient driven through connect, chat,
\* chatStream, createSnapshot and disconnect, each call awaited before the
\* next one is made (a chatStream generator is drained, or abandoned, before
\* the next call).  q holds the client's fields, transport the one
\* SandboxTransport the constructor created, args the client options.
NewClient == [isConnected |-> FALSE, sessionId |-> None, conversationHistory |-> <<>>]

ChatMessages == {"hello", "more"}

ResponseTexts == {"", "answer"}

\* transport.connect(options) as the client calls it: the fields and the
\* contexts it leaves, and the error it throws (Null: none).
ConnectOutcomes(t, sbs, a) ==
  IF ~HasAuth(a)
    THEN {[transport |-> t, sandboxes |-> sbs, error |-> "AuthenticationError"]}
    ELSE {[transport |-> t, sandboxes |-> sbs, error |-> wrapError("Error")],
          [transport |-> TransportConnected(TransportCreated(t, Len(sbs) + 1)),
           sandboxes |-> Append(sbs, NewSandbox), error |-> Null]}
         \cup (IF a.snapshotId
                 THEN {}
                 ELSE {[transport |-> TransportCreated(t, Len(sbs) + 1),
                        sandboxes |-> Append(sbs, NewSandbox),
                        error |-> wrapError("CLIInstallError")]})

\* buildPromptWithHistory(newMessage): the message itself for an empty
\* history, otherwise a heading, one 'Human:'/'Assistant:' paragraph per
\* entry, the new message as 'Human:' and the closing sentence.
buildPromptWithHistory(history, newMessage) ==
  IF Len(history) = 0
    THEN <<[role |-> "raw", content |-> newMessage]>>
    ELSE <<[role |-> "heading", content |-> "Here is the conversation so far:"]>>
         \o [i \in 1..Len(history) |->
               [role |-> IF history[i].role = "user" THEN "Human" ELSE "Assistant",
                content |-> history[i].content]]
         \o <<[role |-> "Human", content |-> newMessage],
              [role |-> "closing", content |-> "Please continue the conversation naturally"]>>

\* The client's fields at the end of a connect() that did not throw.
ClientConnected(cl, sbs) ==
  [cl EXCEPT !.isConnected = TRUE, !.sessionId = Some(Len(sbs))]

\* The head of chat() and of chatStream(): connect when not connected, build
\* the prompt, push the user entry.  A throwing connect ends the call there.
BeginTurn(message) ==
  {[transport |-> c.transport, sandboxes |-> c.sandboxes, error |-> c.error,
    prompt |-> buildPromptWithHistory(q.conversationHistory, message),
    q |-> IF c.error # Null
            THEN q
            ELSE [(IF q.isConnected THEN q ELSE ClientConnected(q, c.sandboxes))
                    EXCEPT !.conversationHistory =
                      Append(@, [role |-> "user", content |-> message])]] :
   c \in IF q.isConnected
           THEN {[transport |-> transport, sandboxes |-> sandboxes, error |-> Null]}
           ELSE ConnectOutcomes(transport, sandboxes, args)}

ClientCalled(oo, call, error) == [oo EXCEPT !.lastCall = call, !.lastError = error]

InitClient ==
  /\ args \in {a \in ArgsSet :
        /\ a.maxTurns = None /\ a.tools = {} /\ ~a.onTeardown /\ ~a.oauthToken
        /\ a.snapshot = Null /\ a.snapshotEnabled /\ a.signal = "none"}
  /\ transport = NewTransport
  /\ sandboxes = <<>>
  /\ pc = "idle"
  /\ q = NewClient
  /\ aborted = {}
  /\ proc = NoProc
  /\ calls = <<>>
  /\ obs = [lastCall |-> Null, lastError |-> Null, chats |-> 0, lastPrompt |-> <<>>]

\* connect()
CConnect ==
  /\ pc = "idle"
  /\ Len(sandboxes) < MaxSandboxes
  /\ UNCHANGED <<args, pc, aborted, proc, calls>>
  /\ IF q.isConnected
       THEN /\ obs' = ClientCalled(obs, "connect", Null)
            /\ UNCHANGED <<q, transport, sandboxes>>
       ELSE \E c \in ConnectOutcomes(transport, sandboxes, args) :
              /\ transport' = c.transport
              /\ sandboxes' = c.sandboxes
              /\ q' = IF c.error = Null THEN ClientConnected(q, c.sandboxes) ELSE q
              /\ obs' = ClientCalled(obs, "connect", c.error)

\* chat(message), awaited to its end.
CChat(message) ==
  /\ pc = "idle"
  /\ obs.chats < MaxChats
  /\ q.isConnected \/ Len(sandboxes) < MaxSandboxes
  /\ UNCHANGED <<args, pc, aborted, proc, calls>>
  /\ \E b \in BeginTurn(message) :
       /\ sandboxes' = b.sandboxes
       /\ IF b.error # Null
            THEN /\ transport' = b.transport
                 /\ q' = b.q
                 /\ obs' = [ClientCalled(obs, "chat", b.error) EXCEPT !.chats = @ + 1]
            ELSE IF b.transport.sandbox = None \/ ~b.transport.isConnected
              THEN \* startSession throws at its guard
                   /\ transport' = b.transport
                   /\ q' = b.q
                   /\ obs' = [ClientCalled(obs, "chat", "SandboxError") EXCEPT
                                !.chats = @ + 1, !.lastPrompt = b.prompt]
              ELSE /\ transport' = [b.transport EXCEPT
                                      !.currentSessionId = Some(obs.chats + 1)]
                   /\ \/ \* the session's stream ends
                         \E r \in ResponseTexts :
                           /\ q' = [b.q EXCEPT !.conversationHistory =
                                      Append(@, [role |-> "assistant", content |-> r])]
                           /\ obs' = [ClientCalled(obs, "chat", Null) EXCEPT
                                        !.chats = @ + 1, !.lastPrompt = b.prompt]
                      \/ \* the session throws (the CLI exits with an error)
                         /\ q' = b.q
                         /\ obs' = [ClientCalled(obs, "chat", "CLIExecutionError") EXCEPT
                                      !.chats = @ + 1, !.lastPrompt = b.prompt]

\* chatStream(message): the first next() of the generator, up to the first
\* message of the session (or to the error thrown before it).
CChatStream(message) ==
  /\ pc = "idle"
  /\ obs.chats < MaxChats
  /\ q.isConnected \/ Len(sandboxes) < MaxSandboxes
  /\ UNCHANGED <<args, aborted, proc, calls>>
  /\ \E b \in BeginTurn(message) :
       /\ sandboxes' = b.sandboxes
       /\ q' = b.q
       /\ IF b.error # Null
            THEN /\ transport' = b.transport
                 /\ pc' = "idle"
                 /\ obs' = [ClientCalled(obs, "chatStream", b.error) EXCEPT !.chats = @ + 1]
            ELSE IF b.transport.sandbox = None \/ ~b.transport.isConnected
              THEN /\ transport' = b.transport
                   /\ pc' = "idle"
                   /\ obs' = [ClientCalled(obs, "chatStream", "SandboxError") EXCEPT
                                !.chats = @ + 1, !.lastPrompt = b.prompt]
              ELSE /\ transport' = [b.transport EXCEPT
                                      !.currentSessionId = Some(obs.chats + 1)]
                   /\ pc' = "streaming"
                   /\ obs' = [obs EXCEPT !.chats = @ + 1, !.lastPrompt = b.prompt]

\* The chatStream generator finishes: its consumer drains it, the session
\* throws, or the consumer leaves its loop early (return()).
CStreamEnd ==
  /\ pc = "streaming"
  /\ pc' = "idle"
  /\ UNCHANGED <<args, transport, sandboxes, aborted, proc, calls>>
  /\ \/ \E r \in ResponseTexts :
          /\ q' = [q EXCEPT !.conversationHistory =
                     Append(@, [role |-> "assistant", content |-> r])]
          /\ obs' = ClientCalled(obs, "chatStream", Null)
     \/ /\ q' = q
        /\ obs' = ClientCalled(obs, "chatStream", "CLIExecutionError")
     \/ /\ q' = q
        /\ obs' = ClientCalled(obs, "chatStreamAbandoned", Null)

\* createSnapshot()
CCreateSnapshot ==
  /\ pc = "idle"
  /\ UNCHANGED <<args, pc, aborted, proc, calls>>
  /\ IF ~q.isConnected \/ ~CanSnapshot(transport)
       THEN /\ obs' = ClientCalled(obs, "createSnapshot", "SandboxError")
            /\ UNCHANGED <<q, transport, sandboxes>>
       ELSE \/ \* sandbox.snapshot() resolves
               /\ sandboxes' = SandboxesAfterSnapshot(transport, sandboxes)
               /\ transport' = TransportSnapshotted(transport)
               /\ q' = [q EXCEPT !.isConnected = FALSE]
               /\ obs' = ClientCalled(obs, "createSnapshot", Null)
            \/ \* sandbox.snapshot() rejects
               /\ obs' = ClientCalled(obs, "createSnapshot", "SandboxError")
               /\ UNCHANGED <<q, transport, sandboxes>>

\* disconnect()
CDisconnect ==
  /\ pc = "idle"
  /\ UNCHANGED <<args, pc, aborted, proc, calls>>
  /\ obs' = ClientCalled(obs, "disconnect", Null)
  /\ IF ~q.isConnected
       THEN UNCHANGED <<q, transport, sandboxes>>
       ELSE /\ sandboxes' = SandboxesAfterClose(transport, sandboxes)
            /\ transport' = TransportClosed(transport)
            /\ q' = [q EXCEPT !.isConnected = FALSE, !.sessionId = None]

NextClient ==
  \/ CConnect
  \/ \E m \in ChatMessages : CChat(m)
  \/ \E m \in ChatMessages : CChatStream(m)
  \/ CStreamEnd
  \/ CCreateSnapshot
  \/ CDisconnect

SpecClient == InitClient /\ [][NextClient]_vars

\* =================================================================== claims
Finished == pc = "done" /\ q.isStarted

ThisTurnMessages == SubSeq(q.messages, obs.turnStart + 1, Len(q.messages))

HookThrew == pc = "done" /\ obs.tdTrace # <<>> /\ obs.tdTrace[Len(obs.tdTrace)].ev = "hook"

\* C1: when the message sequence of a run has finished and connect had
\* provisioned an execution context, that context has been released exactly
\* once (by a stop through close, or by a successful snapshot).
C1_ReleasedExactlyOnce ==
  (Finished /\ obs.provisioned # None) => Released(The(obs.provisioned)) = 1

\* C2: every started run that has finished went through the teardown once:
\* the onTeardown hook (iff one is given and the transport was still
\* connected) with success = querySuccess, then the snapshot policy, then
\* close, in that order.
C2_TeardownSequence ==
  Finished =>
    LET t == obs.tdTrace
        n == Len(t)
        hooked == args.onTeardown /\ obs.tdConnected
    IN /\ n = (IF hooked THEN 3 ELSE 2)
       /\ t[n].ev = "close"
       /\ t[n - 1].ev = "snapshot"
       /\ hooked => (t[1].ev = "hook" /\ t[1].success = q.querySuccess)

\* C3: an error raised in the teardown phase never reaches the caller and
\* never changes the outcome: what the consumer observes at the end is the
\* outcome run() had determined before the teardown (a clean end, or the
\* run's own wrapped error).
C3_TeardownKeepsOutcome ==
  Finished =>
    /\ obs.outcome = obs.determined
    /\ obs.outcome.kind = "threw" => obs.outcome.error = wrapError(q.queryError)
    /\ obs.outcome.kind = "completed" => q.queryError = Null

C3_Witness == HookThrew /\ obs.outcome.kind = "threw"

\* C4: tools are executed after a turn only if tools are configured and that
\* turn's own messages hold a tool request, and the requests acted on are the
\* ones of that turn's messages.
C4_RequestsOfThisTurn ==
  pc = "tools" =>
    /\ args.tools # {}
    /\ JoinAssistantText(ThisTurnMessages) # <<>>
    /\ q.toolRequests = JoinAssistantText(ThisTurnMessages)

\* C5 as stated: with no tools configured, a run that completes without being
\* interrupted has made exactly one startSession call, whatever maxTurns is.
C5_ExactlyOneTurn ==
  (Finished /\ obs.outcome.kind = "completed" /\ ~q.isInterrupted /\ args.tools = {})
    => obs.sessionsStarted = 1

\* C5 amended: with no tools configured a run never makes more than one
\* startSession call, and a run that completes without being interrupted
\* makes exactly one whenever maxTurns is at least 1 (or absent).
C5_OneTurnIfAllowed ==
  args.tools = {} =>
    /\ obs.sessionsStarted <= 1
    /\ (Finished /\ obs.outcome.kind = "completed" /\ ~q.isInterrupted /\ MaxTurns(args) >= 1)
         => obs.sessionsStarted = 1

C5_Witness ==
  /\ Finished /\ obs.outcome.kind = "completed" /\ ~q.isInterrupted
  /\ args.tools = {} /\ args.maxTurns = None
  /\ obs.sessionsStarted = 1
  /\ JoinAssistantText(q.messages) # <<>>

\* C6: the number of turns (startSession calls) of a run never exceeds
\* maxTurns, 10 when maxTurns is not given, and every new turn increases the
\* turn counter, so the loop ends.
C6_TurnsBounded ==
  /\ q.turn <= MaxTurns(args)
  /\ obs.sessionsStarted = q.turn

C6_Witness ==
  /\ Finished /\ args.maxTurns = None
  /\ q.turn = DefaultMaxTurns
  /\ Len(q.toolRequests) > 0

\* C7: after interrupt() no new turn is started, and a process in flight when
\* interrupt() was called has been sent a termination signal, whichever
\* signal or abort controller the options hold.
C7_InterruptKills ==
  /\ ~obs.startedWhileInterrupted
  /\ obs.interruptedInFlight => proc.sigterm > 0

\* C8: when the signal startSession uses is aborted during the session, the
\* process of that session has been sent a termination signal; and a failure
\* of startSession while the signal is aborted is an AbortError.
C8_AbortKills ==
  /\ (obs.sessAborted /\ pc \in {"streaming", "yieldMsg"} /\ proc.state = "running")
       => proc.sigterm > 0
  /\ (obs.sessFailure # None /\ The(obs.sessFailure).aborted)
       => The(obs.sessFailure).error = "AbortError"

\* C9: session_ended is only ever the last element yielded; a sequence that
\* ends cleanly starts with session_started and ends with session_ended; a
\* run that throws has not yielded session_ended.
C9_SequenceShape ==
  LET y == obs.yielded IN
  /\ \A i \in 1..Len(y) : y[i] = SessionEnded => i = Len(y)
  /\ (Finished /\ obs.outcome.kind = "completed")
       => (Len(y) >= 2 /\ y[1] = SessionStarted /\ y[Len(y)] = SessionEnded)
  /\ (obs.determined.kind = "threw" \/ obs.outcome.kind = "threw")
       => \A i \in 1..Len(y) : y[i] # SessionEnded
  /\ Finished => obs.outcome.kind \in {"completed", "threw", "returned"}

C9_Witness ==
  Finished /\ obs.outcome.kind = "threw" /\ Len(obs.yielded) >= 2

\* C10 as stated: once close or a snapshot has ended a connected session, the
\* transport is never connected again.
C10_NeverConnectedAgain == obs.everEnded => ~transport.isConnected

\* C10 amended: connectivity only changes through these calls: a transport
\* stops being connected only by close() or a successful snapshot, both of
\* which always leave it not connected and without a context handle; and it
\* becomes connected (again) only by a connect() that succeeds, and then
\* holds a context provisioned by that very call.
C10_ConnectivityCycle ==
  [][ /\ (transport.isConnected /\ ~transport'.isConnected)
           => obs'.lastCall \in {"close", "snapshot"}
      /\ obs'.lastCall \in {"close", "snapshot"}
           => (~transport'.isConnected /\ transport'.sandbox = None)
      /\ (~transport.isConnected /\ transport'.isConnected)
           => /\ obs'.lastCall = "connect"
              /\ Len(sandboxes') = Len(sandboxes) + 1
              /\ transport'.sandbox = Some(Len(sandboxes'))
    ]_vars

C10_Witness == obs.everEnded /\ transport.isConnected /\ obs.lastCall = "connect"

\* C11: createSnapshotWithInfo takes a snapshot only when the transport is
\* connected: a call made while connected is false fails with a SandboxError
\* and takes no snapshot.
C11_SnapshotOnlyWhenConnected ==
  /\ obs.lastCall = "snapshot" => obs.lastCallConnected
  /\ (obs.lastCall = "snapshotFailed" /\ ~obs.lastCallConnected)
       => obs.lastError = "SandboxError"

\* C12: a successful snapshot leaves the transport not connected, and until
\* the next connect call every startSession, getSandboxContext and
\* createSnapshotWithInfo on it fails with a SandboxError and no context is
\* snapshotted or stopped; a snapshot that fails leaves the transport's
\* fields and the contexts as they were.
C12_SnapshotInvalidates ==
  [][ /\ obs'.sinceSnapshot => ~transport'.isConnected
      /\ (obs.sinceSnapshot /\ obs'.sinceSnapshot)
           => /\ sandboxes' = sandboxes
              /\ obs'.lastCall \notin {"session", "context"}
              /\ obs'.lastCall \in {"sessionFailed", "contextFailed", "snapshotFailed"}
                   => obs'.lastError = "SandboxError"
      /\ obs'.lastCall = "snapshotFailed"
           => (transport' = transport /\ sandboxes' = sandboxes)
    ]_vars

C12_Witness ==
  /\ obs.sinceSnapshot
  /\ obs.lastCall = "sessionFailed"
  /\ obs.lastError = "SandboxError"
  /\ \E i \in 1..Len(sandboxes) : sandboxes[i].snaps = 1

\* C13: close() always returns normally, also when sandbox.stop() rejects,
\* and leaves connected false, no context handle and no current session id;
\* a close() that follows a close() changes nothing, and no context is ever
\* stopped more than once.
C13_CloseIdempotent ==
  [][ /\ obs'.lastCall = "close"
           => (transport' = NewTransport /\ obs'.lastError = Null)
      /\ (obs.lastCall = "close" /\ obs'.lastCall = "close")
           => (transport' = transport /\ sandboxes' = sandboxes)
      /\ \A i \in 1..Len(sandboxes') : sandboxes'[i].stops <= 1
    ]_vars

C13_Witness ==
  /\ obs.lastCall = "close"
  /\ obs.stopRejected
  /\ transport = NewTransport
  /\ \E i \in 1..Len(sandboxes) : sandboxes[i].stops = 1

\* C14: at no time are two processes launched by startSession calls on the
\* same transport running together.
C14_OneProcessAtATime ==
  Cardinality({i \in 1..Len(calls) : calls[i].state = "running"}) <= 1

\* C15: as long as no element has been requested from the query, its
\* transport is as constructed (no context, not connected), no context has
\* been provisioned, no process launched and nothing yielded; whatever was
\* connected, provisioned or launched came after the first request.
C15_PullBased ==
  ~q.isStarted =>
    /\ transport = NewTransport
    /\ sandboxes = <<>>
    /\ proc = NoProc
    /\ obs.yielded = <<>>
    /\ obs.sessionsStarted = 0

C15_Witness ==
  /\ q.isStarted
  /\ transport.isConnected
  /\ pc = "setup"
  /\ obs.yielded = <<>>

\* The place of a kind of setup step in the order the contract fixes.
StepRank(kind) ==
  CASE kind = "writeFiles" -> 1
    [] kind = "mkdir" -> 2
    [] kind = "clone" -> 3
    [] kind = "npmInstall" -> 4
    [] kind = "command" -> 5
    [] kind = "onSetup" -> 6

RanOk(kind, index) ==
  \E i \in 1..Len(obs.setupTrace) :
    obs.setupTrace[i] = [step |-> Step(kind, index), ok |-> TRUE]

\* C16: the setup steps that have run are in the order write files, clone,
\* package install, commands in list order, onSetup hook; no step runs after
\* a step that failed; and a session_started message or a turn is only seen
\* once every configured step and the onSetup hook have succeeded.
C16_SetupOrder ==
  LET t == obs.setupTrace IN
  /\ \A i, j \in 1..Len(t) :
       i < j => \/ StepRank(t[i].step.kind) < StepRank(t[j].step.kind)
                \/ /\ t[i].step.kind = "command" /\ t[j].step.kind = "command"
                   /\ t[i].step.index < t[j].step.index
  /\ \A i \in 1..Len(t) : ~t[i].ok => i = Len(t)
  /\ (obs.yielded # <<>> \/ obs.sessionsStarted > 0)
       => /\ \A i \in 1..Len(t) : t[i].ok
          /\ args.files => RanOk("writeFiles", 0)
          /\ args.githubRepo => RanOk("clone", 0)
          /\ args.npmInstall => RanOk("npmInstall", 0)
          /\ \A k \in 1..args.commands : RanOk("command", k)
          /\ args.onSetup => RanOk("onSetup", 0)

C16_Witness ==
  /\ Finished
  /\ args.files /\ args.commands = MaxCommands /\ args.onSetup
  /\ RanOk("writeFiles", 0) /\ RanOk("command", 1)
  /\ ~obs.setupTrace[Len(obs.setupTrace)].ok
  /\ obs.setupTrace[Len(obs.setupTrace)].step = Step("command", 2)
  /\ obs.yielded = <<>>
  /\ obs.outcome.kind = "threw"

\* C17: when a setup step or the onSetup hook has thrown, the onSetupError
\* hook, if one is given, has been called exactly once, and the error the
\* run fails with is the error the setup threw.
C17_SetupErrorReraised ==
  (InTeardown /\ obs.setupThrown # Null) =>
    /\ args.onSetupError => obs.setupErrorCalls = 1
    /\ q.queryError = obs.setupThrown
    /\ obs.determined = RunCatch(obs.setupThrown)

\* The snapshot policy as the contract states it.
PolicySnapshots(a, success) ==
  IF a.snapshot # Null
    THEN CASE a.snapshot = "always" -> TRUE
           [] a.snapshot = "on-success" -> success
           [] a.snapshot \in {"never", "on-demand"} -> FALSE
    ELSE a.snapshotEnabled /\ success

\* C18: after a run whose transport was connected when the run ended, an
\* automatic snapshot has been attempted exactly when the snapshot policy
\* says so: by the mode if advanced snapshot options are given, else iff
\* snapshotEnabled is true and the run succeeded.
C18_SnapshotPolicy ==
  (Finished /\ obs.tdConnected)
    => (obs.snapAttempted <=> PolicySnapshots(args, q.querySuccess))

\* C19: a run given neither an API key nor an OAuth token creates no
\* execution context, never connects its transport, yields no message, and
\* ends by throwing the AuthenticationError; a run given either credential
\* does not fail with an AuthenticationError.
C19_AuthRequired ==
  /\ (~args.apiKey /\ ~args.oauthToken)
       => /\ sandboxes = <<>>
          /\ ~transport.isConnected
          /\ obs.yielded = <<>>
          /\ InTeardown /\ q.isStarted
               => obs.determined = [kind |-> "threw", error |-> "AuthenticationError"]
          /\ Finished
               => obs.outcome = [kind |-> "threw", error |-> "AuthenticationError"]
  /\ (args.apiKey \/ args.oauthToken) => q.queryError # "AuthenticationError"

C19_Witness ==
  /\ Finished
  /\ ~args.apiKey /\ ~args.oauthToken
  /\ obs.outcome = [kind |-> "threw", error |-> "AuthenticationError"]
  /\ Len(obs.tdTrace) = 2

\* The well-formed messages among the lines of a script, in order.
ValidLines(script) ==
  LET all == [i \in 1..Len(script.lines) |-> Line(script.lines[i], i)]
      IsValid(l) == l.kind = "valid"
  IN SelectSeq(all, IsValid)

\* C20: when the process has exited with a non-zero code and no abort was
\* signalled, startSession has failed with a CLIExecutionError that carries
\* that exit code and the process's stderr, and by then every well-formed
\* message of its stdout, an unterminated last line included, has been
\* yielded, in order.
C20_ExitCodeError ==
  (proc.state = "exited" /\ proc.exitCode # 0 /\ aborted = {}) =>
    /\ obs.sessFailure # None
    /\ The(obs.sessFailure).error = "CLIExecutionError"
    /\ The(obs.sessFailure).exitCode = proc.exitCode
    /\ The(obs.sessFailure).stderr = proc.stderr
    /\ obs.yielded = ValidLines(proc.script)

C20_Witness ==
  /\ proc.state = "exited" /\ proc.exitCode = 1 /\ aborted = {}
  /\ proc.stderr = "boom"
  /\ proc.script = [lines |-> <<"notJson", "valid">>, terminated |-> FALSE]
  /\ obs.yielded = <<Line("valid", 2)>>
  /\ The(obs.sessFailure).error = "CLIExecutionError"

\* The lines of the parser's input that are not blank, in order.
NonBlankLines == SelectSeq(proc.input.lines, LAMBDA l : Trim(l) # <<>>)

\* The payloads of the non-blank input lines, in order.
ExpectedValues == [i \in 1..Len(NonBlankLines) |-> Trim(NonBlankLines[i])[2]]

ParserFinished == Gen.state \in {"done", "thrown"}

\* C21 as stated: when every non-blank line of the stream is valid JSON, the
\* stream parser yields one value per line, in order, however the stream is
\* cut into chunks.
C21_ValidJsonLinesAllYielded ==
  (\A i \in 1..Len(NonBlankLines) : IsJson(Trim(NonBlankLines[i])))
    => (ParserFinished => obs.yielded = ExpectedValues)

\* C21: when every non-blank line of the stream is a JSON object with a type
\* field, the stream parser never throws and yields exactly one value per
\* line, in the original order, however the stream is cut into chunks, with
\* blank lines between the lines and with or without a final newline.
C21_ChunkInvariant ==
  (\A i \in 1..Len(NonBlankLines) :
      /\ IsJson(Trim(NonBlankLines[i]))
      /\ Trim(NonBlankLines[i])[2] \in MessagePayloads)
    => /\ Gen.state # "thrown"
       /\ Len(obs.yielded) <= Len(ExpectedValues)
       /\ obs.yielded = SubSeq(ExpectedValues, 1, Len(obs.yielded))
       /\ (Gen.state = "done" => obs.yielded = ExpectedValues)

\* Two messages with a blank line between them and no final newline were
\* read with a cut in the middle of a line, and both were yielded.
C21_Witness ==
  /\ Gen.state = "done"
  /\ Len(proc.input.lines) = 3
  /\ Trim(proc.input.lines[2]) = <<>>
  /\ ~proc.input.terminated
  /\ obs.cutMidLine
  /\ obs.yielded = <<"a", "b">>

\* The payloads of the input lines that parseLine accepts, in order.
MessageValues ==
  LET ok == SelectSeq(proc.input.lines, LAMBDA l : parseLine(l).kind = "message")
  IN [i \in 1..Len(ok) |-> parseLine(ok[i]).value]

\* C22: a non-blank line that is not valid JSON raises a ParseError carrying
\* the trimmed line, and the failure does not abort the stream: a consumer
\* that catches it and keeps pulling receives the valid lines after the bad
\* one, so once the stream is exhausted it has received every valid line.
C22_BadLineSkippable ==
  /\ (obs.thrown # None =>
        /\ The(obs.thrown) # <<>>
        /\ \E i \in 1..Len(proc.input.lines) :
             The(obs.thrown) = Trim(proc.input.lines[i]))
  /\ (obs.nextAfterThrow = "done" => obs.yielded = MessageValues)

\* The calls of enrichMessage made so far that returned a message.
Enriched == {i \in 1..Len(calls) : calls[i].out.kind = "message"}

\* C25: every message enrichMessage returns has a string uuid, a string
\* session_id and a parent_tool_use_id that is a string or null, whatever
\* the raw value held in those fields.
C25_IdentityAlwaysPresent ==
  \A i \in Enriched :
    /\ calls[i].out.f.uuid[1] = "string"
    /\ calls[i].out.f.session_id[1] = "string"
    /\ calls[i].out.f.parent_tool_use_id[1] \in {"string", "null"}

\* A raw message without any of the three fields was enriched.
C25_Witness ==
  /\ Len(calls) = 1
  /\ calls[1].out.kind = "message"
  /\ calls[1].raw.f.uuid = Undefined
  /\ calls[1].raw.f.session_id = Undefined
  /\ calls[1].raw.f.parent_tool_use_id = Undefined
  /\ calls[1].out.f.uuid = Str("generated-uuid-2")
  /\ calls[1].out.f.parent_tool_use_id = NullValue

\* C26: enrichMessage fails with a ParseError for null, for every value that
\* is not an object, and for every object whose type is missing, is not a
\* string or is not one of the seven message types; it returns a message
\* for every object whose type is one of the seven.
C26_GateExact ==
  \A i \in 1..Len(calls) :
    LET raw == calls[i].raw
        known == /\ raw.kind = "object"
                 /\ raw.f.type[1] = "string"
                 /\ raw.f.type[2] \in {"system", "user", "assistant", "result",
                                       "tool_use", "progress", "error"}
    IN calls[i].out.kind = IF known THEN "message" ELSE "ParseError"

\* An object of an unknown type was rejected.
C26_Witness ==
  /\ Len(calls) = 1
  /\ calls[1].raw.kind = "object"
  /\ calls[1].raw.f.type = Str("unknown_type")
  /\ calls[1].out.kind = "ParseError"

\* C27: a message whose uuid, session_id and parent_tool_use_id are strings
\* keeps the three values, and enriching an enriched message again returns
\* the same three values.
C27_IdentityPreserved ==
  /\ \A i \in Enriched :
       LET raw == calls[i].raw.f
           out == calls[i].out.f
       IN /\ raw.uuid[1] = "string" => out.uuid = raw.uuid
          /\ raw.session_id[1] = "string" => out.session_id = raw.session_id
          /\ raw.parent_tool_use_id[1] = "string"
               => out.parent_tool_use_id = raw.parent_tool_use_id
  /\ Len(calls) = 2 =>
       /\ calls[2].out.kind = "message"
       /\ calls[2].out.f.uuid = calls[1].out.f.uuid
       /\ calls[2].out.f.session_id = calls[1].out.f.session_id
       /\ calls[2].out.f.parent_tool_use_id = calls[1].out.f.parent_tool_use_id

\* A message with generated identity fields was enriched a second time.
C27_Witness ==
  /\ Len(calls) = 2
  /\ calls[1].raw.f.uuid = Undefined
  /\ calls[1].raw.f.session_id = Undefined
  /\ calls[2].out.f.uuid = calls[1].out.f.uuid
  /\ calls[2].out.f.session_id = Str("session_current")

\* The fields the per-type defaults are about, and one they never touch.
PayloadFields == {"type", "message", "subtype", "error", "name"}

\* The default a message of type t gets for field k, if there is one.
DefaultOf(t, k) ==
  CASE k = "message" /\ t \in {"assistant", "user"} -> Some(Obj(t, "[]"))
    [] k = "subtype" /\ t = "result" -> Some(Str("success"))
    [] k = "error" /\ t = "error" ->
         Some(Obj("UNKNOWN_ERROR", "Unknown error occurred"))
    [] OTHER -> None

\* C28 as stated: a field that is missing gets its per-type default, if it
\* has one, and every field that is present is carried over unchanged.
C28_PresentFieldsUnchanged ==
  \A i \in Enriched :
    LET raw == calls[i].raw.f
        out == calls[i].out.f
    IN \A k \in PayloadFields :
         IF raw[k] # Undefined THEN out[k] = raw[k]
         ELSE IF DefaultOf(raw.type[2], k) # None
                THEN out[k] = The(DefaultOf(raw.type[2], k))
                ELSE out[k] = Undefined

\* C28: a field with a per-type default (message of assistant and user,
\* subtype of result, error of error) gets the default when it is missing or
\* not of the expected kind (message and error: an object; subtype: a
\* string) and is unchanged otherwise; every other field is unchanged.
C28_DefaultsExact ==
  \A i \in Enriched :
    LET raw == calls[i].raw.f
        out == calls[i].out.f
    IN \A k \in PayloadFields :
         LET d == DefaultOf(raw.type[2], k)
             expected == IF k = "subtype" THEN raw[k][1] = "string"
                         ELSE raw[k][1] = "object"
         IN out[k] = IF d # None /\ ~expected THEN The(d) ELSE raw[k]

\* An assistant message without a message and with a name was enriched.
C28_Witness ==
  /\ Len(calls) = 1
  /\ calls[1].out.kind = "message"
  /\ calls[1].raw.f.type = Str("assistant")
  /\ calls[1].raw.f.message = Undefined
  /\ calls[1].out.f.message = Obj("assistant", "[]")
  /\ calls[1].raw.f.name = Str("calculator")
  /\ calls[1].out.f.name = Str("calculator")

\* The lines of the session's output that hold a valid message, in order.
ValidMessageLines ==
  SelectSeq(proc.input, LAMBDA l :
    /\ l.text = "json"
    /\ l.value.kind = "object"
    /\ l.value.f.type[1] = "string"
    /\ l.value.f.type[2] \in {"system", "user", "assistant", "result",
                              "tool_use", "progress", "error"})

C24_Passthrough ==
  LET y == obs.yielded
      t == obs.fromTransport
      ended == Len(y) >= 2 /\ y[Len(y)] = SessionEnded
  IN /\ (t # <<>> => y # <<>>)
     /\ y # <<>> =>
          /\ y[1] = SessionStarted
          /\ SubSeq(y, 2, IF ended THEN Len(y) - 1 ELSE Len(y)) = t
     /\ (Finished /\ obs.outcome.kind = "completed") => ended

\* A run of two turns ended cleanly after the transport had yielded one
\* message in each turn.
C24_Witness ==
  /\ Finished /\ obs.outcome.kind = "completed"
  /\ q.turn = 2
  /\ obs.fromTransport = <<Assistant(<<"calc">>), Assistant(<<"calc">>)>>
  /\ Len(obs.yielded) = 4

\* C29 as stated: executeTool returns a validation error without invoking the
\* handler for an input the schema rejects, the handler's result unchanged for
\* an input it accepts, and, whatever the handler throws, an error result
\* whose text contains what was thrown.
C29_ThrownMessageAlwaysShown ==
  \A i \in 1..Len(obs.executed) :
    LET e == obs.executed[i] IN
    e.tool.handler \in {"throwsError", "throwsValue"} /\ e.input # "bad"
      => /\ e.out.isError
         /\ e.out.text[2] = Handler(e.tool, "ok").text[2]

\* C29: executeTool always returns a result: a 'Validation error' result,
\* with the handler not invoked, for an input the schema rejects; the
\* handler's own result for an input the schema accepts; an error result
\* with the Error's message when the handler throws an Error, and with
\* 'Unknown error' when it throws any other value.
C29_ExecuteToolTotal ==
  \A i \in 1..Len(obs.executed) :
    LET e == obs.executed[i] IN
    IF e.input = "bad"
      THEN /\ e.out.isError /\ e.out.text[1] = "Validation error"
           /\ ~e.out.invoked
      ELSE /\ e.out.invoked
           /\ CASE e.tool.handler = "returns" ->
                     ~e.out.isError /\ e.out.text = <<e.tool.name, "ok">>
                [] e.tool.handler = "returnsError" ->
                     e.out.isError /\ e.out.text = <<e.tool.name, "failed">>
                [] e.tool.handler = "throwsError" ->
                     /\ e.out.isError
                     /\ e.out.text = <<"Tool execution error", "Something went wrong">>
                [] e.tool.handler = "throwsValue" ->
                     /\ e.out.isError
                     /\ e.out.text = <<"Tool execution error", "Unknown error">>

\* executeTool was called with a rejected input and with an accepted input
\* for a handler that throws an Error.
C29_Witness ==
  /\ Len(obs.executed) = 2
  /\ obs.executed[1].input = "bad"
  /\ obs.executed[2].input = "okExtra"
  /\ obs.executed[2].tool.handler = "throwsError"
  /\ obs.executed[2].out.text[2] = "Something went wrong"

\* C30: the requests are handled one at a time in their order of appearance
\* in the assistant text: after k steps the results are those of the first k
\* requests, which lie at increasing places of the text; a request
\* for an unknown tool gives an 'Unknown tool' text and no executeTool call,
\* a request for a known tool gives the result of one executeTool call, and
\* the run is never aborted, whatever the handlers do.
C30_ToolLoop ==
  /\ pc # "failed"
  /\ Len(obs.toolResults) = obs.handled
  /\ \A i \in 1..Len(obs.toolResults) :
       LET req == proc.toolRequests[i]
           known == req.tool = "calc" \/ (req.tool = "echo" /\ proc.toolMap.echo # None)
       IN /\ obs.toolResults[i].tool = req.tool
          /\ obs.toolResults[i].kind = IF known THEN "result" ELSE "Unknown tool"
          /\ proc.assistantText[req.pos].form # "prose"
          /\ proc.assistantText[req.pos].tool = req.tool
          /\ i > 1 => proc.toolRequests[i - 1].pos < req.pos
  /\ Len(obs.executed) =
       Cardinality({i \in 1..obs.handled :
          LET req == proc.toolRequests[i]
          IN req.tool = "calc" \/ (req.tool = "echo" /\ proc.toolMap.echo # None)})
  /\ \A i \in 1..Len(obs.executed) :
       \E j \in 1..obs.handled :
         /\ obs.executed[i].input = proc.toolRequests[j].input
         /\ obs.executed[i].tool.name = proc.toolRequests[j].tool

\* An unknown tool and then a tool whose handler throws were requested, and
\* the loop went on after both.
C30_Witness ==
  /\ pc = "loopCheck"
  /\ proc.assistantText = <<[form |-> "inline", tool |-> "nope", input |-> "ok"],
                            [form |-> "inline", tool |-> "calc", input |-> "ok"]>>
  /\ proc.toolMap.calc = Some([name |-> "calc", handler |-> "throwsError"])
  /\ obs.toolResults[1].kind = "Unknown tool"
  /\ obs.toolResults[2].text = <<"Tool execution error", "Something went wrong">>
  /\ Len(obs.executed) = 1

\* C31: after k tool-executing turns the history has 2k entries; for the
\* j-th such turn an assistant entry holding that turn's assistant text, then
\* a user entry holding the results of that turn's requests in order; and
\* the next prompt is the continuation instruction.
C31_TwoEntriesPerToolTurn ==
  LET h == q.conversationHistory
      k == Len(obs.toolTurnTexts)
  IN /\ Len(h) = 2 * k
     /\ \A j \in 1..k :
          /\ h[2 * j - 1].role = "assistant"
          /\ h[2 * j - 1].content = obs.toolTurnTexts[j]
          /\ h[2 * j].role = "user"
          /\ h[2 * j].content = ToolResults(obs.toolTurnTexts[j], args.tools)
     /\ k > 0 => q.currentPrompt = "continuation"

\* C32: the prompt of turn 1 is the raw user prompt; the prompt of every
\* later turn holds the original user prompt, then the entries of the
\* history in order, then the continuation instruction.
C32_PromptHoldsConversation ==
  LET o == obs.outbound IN
  /\ obs.sessionsStarted = 1 => o = <<[role |-> "", kind |-> "prompt", content |-> <<>>]>>
  /\ obs.sessionsStarted > 1 =>
       /\ o[Len(o)].kind = "continuation"
       /\ \E i \in 1..Len(o) : o[i].kind = "prompt"

\* C33: once an automatic snapshot has been created, the query's snapshotId
\* is that snapshot, the onSnapshot callback (if one is given) has been
\* invoked exactly once for it, and the snapshot is attached to the last
\* result message of the log and to no other message.
C33_SnapshotAttached ==
  obs.autoCreated # None =>
    LET results == {i \in 1..Len(q.messages) : q.messages[i].type = "result"}
    IN /\ q.snapshotId = obs.autoCreated
       /\ args.onSnapshot # "none" => obs.autoCallbacks = 1
       /\ \A i \in 1..Len(q.messages) :
            q.messages[i].snapshotId =
              IF i \in results /\ (\A j \in results : j <= i)
                THEN obs.autoCreated ELSE None

\* C38: sandbox.snapshot() is invoked at most once on the execution context.
C38_SnapshotInvokedOnce == obs.snapshotCalls <= 1

\* The kinds of SDK error a run can fail with.
SDKErrorKinds ==
  {"AuthenticationError", "CLIInstallError", "CLIExecutionError", "AbortError",
   "SandboxError"}

\* C34: wrapError returns an SDK error unchanged, so wrapping twice equals
\* wrapping once, and turns any other failure into UNKNOWN_ERROR with the
\* failure as its cause; the error a failed run throws to its consumer has
\* the kind of the failure, and a failed CLI install is thrown as a
\* CLIInstallError.
C34_KindIntact ==
  /\ \A e \in SDKErrorKinds : wrapError(e) = e /\ wrapErrorCause(e) = None
  /\ \A e \in {"Error", "TypeError", "string"} :
       wrapError(e) = "UNKNOWN_ERROR" /\ wrapErrorCause(e) = Some(e)
  /\ \A e \in SDKErrorKinds \cup {"Error", "TypeError", "string"} :
       wrapError(wrapError(e)) = wrapError(e)
  /\ (q.queryError # Null /\ obs.determined.kind = "threw") =>
       obs.determined.error =
         IF q.queryError \in SDKErrorKinds THEN q.queryError ELSE "UNKNOWN_ERROR"
  /\ (Finished /\ q.queryError \in SDKErrorKinds /\ ~HookThrew
        /\ obs.outcome.kind = "threw")
       => obs.outcome.error = q.queryError

\* A run whose CLI install failed has finished.
C34_Witness ==
  /\ Finished
  /\ q.queryError = "CLIInstallError"
  /\ obs.outcome = [kind |-> "threw", error |-> "CLIInstallError"]

\* C35: a run interrupted while a turn was streaming does not end as a
\* completed run: session_ended is not yielded, querySuccess stays false,
\* the teardown hook is not told of a success, and no automatic snapshot is
\* attempted unless the mode is 'always'.
C35_InterruptedNotCompleted ==
  obs.interruptedInFlight =>
    /\ \A i \in 1..Len(obs.yielded) : obs.yielded[i] # SessionEnded
    /\ ~q.querySuccess
    /\ \A i \in 1..Len(obs.tdTrace) :
         obs.tdTrace[i].ev = "hook" => ~obs.tdTrace[i].success
    /\ obs.snapAttempted => args.snapshot = "always"

\* C36: every streamed message whose line held no session id carries the
\* session id of the query, the one session_started and session_ended
\* carry, in every turn of the run.
C36_OneSession ==
  \A i \in 1..Len(obs.streamSessions) : obs.streamSessions[i] = QuerySessionId

\* C37: whenever the tools of a turn have been executed (and the run has not
\* been interrupted), a further turn has been started, whose prompt holds
\* the results as its last history entry.
C37_ToolResultsUsed ==
  (Len(obs.toolTurnTexts) > 0 /\ ~q.isInterrupted) =>
    /\ obs.sessionsStarted > Len(obs.toolTurnTexts)
    /\ Len(obs.outbound) = Len(q.conversationHistory) + 1
    /\ obs.outbound[Len(obs.outbound) - 1].content
         = q.conversationHistory[Len(q.conversationHistory)].content

\* C39: between calls the client's history alternates user, assistant,
\* beginning with user and ending with assistant; a call that fails, and an
\* abandoned chatStream, leave no entry behind.
C39_HistoryAlternates ==
  pc = "idle" =>
    /\ Len(q.conversationHistory) % 2 = 0
    /\ \A i \in 1..Len(q.conversationHistory) :
         q.conversationHistory[i].role = (IF i % 2 = 1 THEN "user" ELSE "assistant")

\* C40: when the last call made was disconnect(), every execution context
\* the client provisioned has been stopped or ended by a snapshot.
C40_NothingLeftRunning ==
  obs.lastCall = "disconnect" => \A id \in 1..Len(sandboxes) : Released(id) > 0
====
